---- MODULE Spec2Model ----
(***************************************************************************)
(* Verification model of the SymSpell engine of spellchecker-wasm:         *)
(* dictionary construction (create_dictionary_entry, the delete index and  *)
(* the dictionary lines), single-word lookup with its OSA edit distance,   *)
(* lookup_compound, word_segmentation and the encoding of a suggestion,    *)
(* with the buffer of write_to_dictionary of the wasm wrapper and the      *)
(* byte offsets GraphemeClusters caches.                                   *)
(*                                                                         *)
(* A string is a sequence of graphemes.  A grapheme is an opaque token     *)
(* with a UTF-8 byte length; the code mixes grapheme indices and byte      *)
(* indices, so both views are modelled.                                    *)
(***************************************************************************)
EXTENDS Integers, Sequences, FiniteSets, TLC

\* ------------------------------------------------------------------ bounds
MaxKeyLen == 3
MaxInputLen == 3
MaxIngest == 2
MaxFields == 3
MaxDistance == 3
MaxPhraseLen == 3
MaxCompoundIngest == 3
\* bytes handed to one call of write_to_dictionary, and calls made
MaxChunkLen == 3
MaxWrites == 2
\* graphemes of the string of a GraphemeClusters, and calls made on it
MaxClusterLen == 3
MaxRequests == 3
\* graphemes of a text handed to parse_words
MaxTextLen == 4

\* usize::max_value(); TLC integers are 32 bit signed, so usize is modelled
\* 31 bits wide.
UsizeMax == 2147483647

Ascii == {"a", "b"}
\* one grapheme whose UTF-8 encoding is two bytes long
Wide == "eacute"
\* graphemes of 3 and of 4 bytes that is_alpha_numeric takes for word
\* graphemes, the euro sign (U+20AC) and the rocket of the tests of
\* grapheme_iterator.rs (U+1F680), and one of 3 bytes it does not, the em
\* dash (U+2014)
Euro == "euro"
Rocket == "rocket"
Dash == "emdash"
\* The words ingested: create_deletes looks at the length of a word and at
\* its first prefix_length graphemes only, so the words drawn are at most
\* one grapheme longer than the prefix.
Keys(prefix_len) ==
  UNION {[1..n -> Ascii] : n \in 0..(IF prefix_len + 1 < MaxKeyLen
                                       THEN prefix_len + 1 ELSE MaxKeyLen)}
    \cup {<<Wide>>}
Inputs == UNION {[1..n -> Ascii] : n \in 0..MaxInputLen} \cup {<<Wide>>}
Counts == {0, 1, UsizeMax - 1}
Verbosities == {"Top", "Closest", "All"}

\* ------------------------------------------------------- strings and bytes
Min(a, b) == IF a < b THEN a ELSE b
Max(a, b) == IF a > b THEN a ELSE b

\* GraphemeClusters::grapheme_len applied to the leading byte of a grapheme
grapheme_len(g) == IF g = Wide THEN 2 ELSE IF g \in {Euro, Dash} THEN 3 ELSE IF g = Rocket THEN 4 ELSE 1

RECURSIVE byte_len(_)
\* str::len(): the length in bytes
byte_len(s) == IF s = <<>> THEN 0 ELSE grapheme_len(Head(s)) + byte_len(Tail(s))

\* GraphemeClusters::len(): the number of graphemes
gc_len(s) == Len(s)

\* byte offset at which the grapheme with 0-based index i starts
byte_offset(s, i) == byte_len(SubSeq(s, 1, i))

\* the string without its grapheme at 1-based position i
RemoveAt(s, i) == SubSeq(s, 1, i - 1) \o SubSeq(s, i + 1, Len(s))

\* The delete built in edits and in lookup for the grapheme at 1-based
\* position i: subject[..start] followed by subject[start + 1..], byte
\* indices.  start + 1 is inside a grapheme longer than one byte and str
\* slicing aborts there.
delete_at(subject, i) ==
  IF grapheme_len(subject[i]) = 1
  THEN [panic |-> FALSE, delete |-> RemoveAt(subject, i)]
  ELSE [panic |-> TRUE, delete |-> <<>>]

\* ------------------------------------------------------------------- hash
GraphemeCode(g) ==
  IF g = "a" THEN 1 ELSE IF g = "b" THEN 2 ELSE IF g = Wide THEN 3
  ELSE IF g = "1" THEN 4 ELSE IF g = " " THEN 5 ELSE IF g = "," THEN 6 ELSE 7

RECURSIVE StrCode(_)
StrCode(s) == IF s = <<>> THEN 0 ELSE GraphemeCode(Head(s)) + 8 * StrCode(Tail(s))

HashKinds == {"injective", "colliding"}

\* get_string_hash: DefaultHasher over the string.  "injective" is a hash
\* without collisions on the strings of the model, "colliding" one that
\* maps many strings of the model to one bucket.
get_string_hash(kind, s) ==
  IF kind = "injective" THEN StrCode(s)
  ELSE Len(s) % 2

\* ------------------------------------------------------------------ state
VARIABLES
  dictionary_edit_distance,
  prefix_length,
  count_threshold,
  max_dictionary_word_length,
  deletes,
  words,
  below_threshold_words,
  bigrams,
  bigram_count_min,
  hash_kind,
  ingested,
  aborted,
  ret,
  comparator,
  twin,
  BUFFER,
  stream,
  passed,
  bytes,
  byte_indices

vars == <<dictionary_edit_distance, prefix_length, count_threshold,
          max_dictionary_word_length, deletes, words, below_threshold_words,
          bigrams, bigram_count_min, hash_kind, ingested, aborted, ret,
          comparator, twin, BUFFER, stream, passed, bytes, byte_indices>>

\* BUFFER of spellchecker_wasm with the record kept of it: stream is every
\* byte write_to_dictionary was handed, passed the lines it handed on
wrapper == <<BUFFER, stream, passed>>

\* the fields of a GraphemeClusters: the bytes of its string and the byte
\* offsets it has cached
clusters == <<bytes, byte_indices>>

config == <<dictionary_edit_distance, prefix_length, count_threshold, hash_kind>>

\* the SymSpell struct as one value
Self ==
  [dictionary_edit_distance |-> dictionary_edit_distance,
   prefix_length |-> prefix_length,
   count_threshold |-> count_threshold,
   max_dictionary_word_length |-> max_dictionary_word_length,
   deletes |-> deletes,
   words |-> words,
   below_threshold_words |-> below_threshold_words,
   bigrams |-> bigrams,
   bigram_count_min |-> bigram_count_min,
   hash_kind |-> hash_kind]

\* HashMap::insert
MapInsert(m, k, v) == (k :> v) @@ m
\* HashMap::remove
MapRemove(m, k) == [x \in DOMAIN m \ {k} |-> m[x]]
EmptyMap == [x \in {} |-> 0]

\* --------------------------------------------------------- delete index
\* insert_delete: push key on the bucket of hash(delete)
insert_delete(kind, dels, delete, key) ==
  LET delete_hash == get_string_hash(kind, delete) IN
  IF delete_hash \in DOMAIN dels
  THEN [dels EXCEPT ![delete_hash] = Append(@, key)]
  ELSE MapInsert(dels, delete_hash, <<key>>)

RECURSIVE edits(_, _, _, _)
RECURSIVE edits_loop(_, _, _, _, _)
\* edits: the deletes of subject, recursively, added to delete_words.
\* Returns [panic, set].
edits(max_ed, subject, edit_distance, delete_words) ==
  IF byte_len(subject) = 1
  THEN [panic |-> FALSE, set |-> delete_words]
  ELSE edits_loop(max_ed, subject, edit_distance + 1, 1, delete_words)

\* the for loop of edits over the graphemes of subject, from position i on
edits_loop(max_ed, subject, edit_distance, i, delete_words) ==
  IF i > Len(subject)
  THEN [panic |-> FALSE, set |-> delete_words]
  ELSE
    LET d == delete_at(subject, i) IN
    IF d.panic THEN [panic |-> TRUE, set |-> delete_words]
    ELSE IF d.delete \in delete_words
    THEN edits_loop(max_ed, subject, edit_distance, i + 1, delete_words)
    ELSE
      LET rec == IF edit_distance < max_ed
                 THEN edits(max_ed, d.delete, edit_distance, delete_words)
                 ELSE [panic |-> FALSE, set |-> delete_words]
      IN IF rec.panic THEN rec
         ELSE edits_loop(max_ed, subject, edit_distance, i + 1,
                         rec.set \cup {d.delete})

\* create_deletes: the set of delete strings of key; pushes the truncated
\* key on its own bucket on the way.  Returns [panic, set, deletes].
create_deletes(self, key0) ==
  LET key_len == gc_len(key0)
      set0 == IF key_len <= self.dictionary_edit_distance THEN {<<>>} ELSE {}
      key == IF key_len > self.prefix_length
             THEN SubSeq(key0, 1, self.prefix_length) ELSE key0
      set1 == set0 \cup {key}
      dels == insert_delete(self.hash_kind, self.deletes, key, key)
      e == edits(self.dictionary_edit_distance, key, 0, set1)
  IN [panic |-> e.panic, set |-> e.set, deletes |-> dels]

RECURSIVE insert_all(_, _, _, _)
\* the loop "for s in set { self.insert_delete(&s, &key) }"
insert_all(kind, dels, set, key) ==
  IF set = {} THEN dels
  ELSE LET s == CHOOSE x \in set : TRUE IN
       insert_all(kind, insert_delete(kind, dels, s, key), set \ {s}, key)

\* the saturating addition of create_dictionary_entry
add_count(prev_count, count) ==
  IF UsizeMax - prev_count > count THEN prev_count + count ELSE UsizeMax

\* the tail of create_dictionary_entry: key enters words with count
add_word(self, key, count) ==
  LET key_len == gc_len(key)
      s1 == IF key_len > self.max_dictionary_word_length
            THEN [self EXCEPT !.max_dictionary_word_length = key_len] ELSE self
      cd == create_deletes(s1, key)
  IN IF cd.panic
     THEN [self |-> [s1 EXCEPT !.deletes = cd.deletes],
           result |-> FALSE, panic |-> TRUE]
     ELSE [self |-> [s1 EXCEPT
                       !.deletes = insert_all(s1.hash_kind, cd.deletes, cd.set, key),
                       !.words = MapInsert(s1.words, key, count)],
           result |-> TRUE, panic |-> FALSE]

\* A create_dictionary_entry that indexes a word again when the word is
\* already in `words`, the behaviour the comment of line 137 rules out.
create_dictionary_entry_regen(self, key, count) ==
  IF self.count_threshold > 1 /\ key \in DOMAIN self.below_threshold_words
  THEN
    LET c == add_count(self.below_threshold_words[key], count) IN
    IF c >= self.count_threshold
    THEN add_word([self EXCEPT !.below_threshold_words = MapRemove(@, key)], key, c)
    ELSE [self |-> [self EXCEPT !.below_threshold_words = MapInsert(@, key, c)],
          result |-> FALSE, panic |-> FALSE]
  ELSE IF key \in DOMAIN self.words
  THEN add_word(self, key, add_count(self.words[key], count))
  ELSE IF count < self.count_threshold
  THEN [self |-> [self EXCEPT !.below_threshold_words = MapInsert(@, key, count)],
        result |-> FALSE, panic |-> FALSE]
  ELSE add_word(self, key, count)

\* create_dictionary_entry.  Returns [self, result, panic].
create_dictionary_entry(self, key, count) ==
  IF self.count_threshold > 1 /\ key \in DOMAIN self.below_threshold_words
  THEN
    LET c == add_count(self.below_threshold_words[key], count) IN
    IF c >= self.count_threshold
    THEN add_word([self EXCEPT !.below_threshold_words = MapRemove(@, key)], key, c)
    ELSE [self |-> [self EXCEPT !.below_threshold_words = MapInsert(@, key, c)],
          result |-> FALSE, panic |-> FALSE]
  ELSE IF key \in DOMAIN self.words
  THEN [self |-> [self EXCEPT !.words = MapInsert(@, key, add_count(self.words[key], count))],
        result |-> FALSE, panic |-> FALSE]
  ELSE IF count < self.count_threshold
  THEN [self |-> [self EXCEPT !.below_threshold_words = MapInsert(@, key, count)],
        result |-> FALSE, panic |-> FALSE]
  ELSE add_word(self, key, count)

\* ------------------------------------------------------------ OSA distance
\* Option<usize>::None
None == -1

\* GraphemeClusters index: the grapheme with 0-based index i
gc_at(s, i) == s[i + 1]

\* the blank that char1 and char2 start from
Blank == " "

RECURSIVE suffix_prep(_, _, _, _)
\* first loop of prefix_suffix_prep: drop the common suffix
suffix_prep(string1, string2, len1, len2) ==
  IF len1 # 0 /\ gc_at(string1, len1 - 1) = gc_at(string2, len2 - 1)
  THEN suffix_prep(string1, string2, len1 - 1, len2 - 1)
  ELSE <<len1, len2>>

RECURSIVE prefix_prep(_, _, _, _)
\* second loop of prefix_suffix_prep: the length of the common prefix
prefix_prep(string1, string2, len1, start) ==
  IF start # len1 /\ gc_at(string1, start) = gc_at(string2, start)
  THEN prefix_prep(string1, string2, len1, start + 1)
  ELSE start

\* prefix_suffix_prep: <<len1, len2, start>> of the windows left after the
\* common suffix and prefix are dropped; string1 is the shorter string
prefix_suffix_prep(string1, string2) ==
  LET l == suffix_prep(string1, string2, gc_len(string1), gc_len(string2))
      start == prefix_prep(string1, string2, l[1], 0)
  IN <<l[1] - start, l[2] - start, start>>

\* null_distance_results
null_distance_results(string1, string2, max_distance) ==
  IF string1 = <<>>
  THEN IF string2 = <<>> THEN 0
       ELSE IF gc_len(string2) <= max_distance THEN gc_len(string2) ELSE None
  ELSE IF gc_len(string1) <= max_distance THEN gc_len(string1) ELSE None

RECURSIVE core_cols(_, _, _, _, _, _, _, _)
\* An inner loop without the transposition of line 94: the Levenshtein
\* distance.
core_cols_levenshtein(string2, start, i, char1, prev_char1, j, j_end, st) ==
  IF j >= j_end THEN st
  ELSE IF j \notin DOMAIN st.c1
  THEN st.c1[j]   \* char1_costs[&j] aborts on a missing key
  ELSE
    LET this_trans_cost == st.next_trans_cost
        next_trans_cost == IF j \in DOMAIN st.p1 THEN st.p1[j] ELSE 0
        diag == st.left_char_cost
        left_char_cost == st.c1[j]
        prev_char2 == st.char2
        char2 == gc_at(string2, start + j)
        m1 == IF st.above_char_cost < diag THEN st.above_char_cost ELSE diag
        m2 == IF left_char_cost < m1 THEN left_char_cost ELSE m1
        current_cost ==
          IF char1 # char2
          THEN m2 + 1
          ELSE diag
    IN core_cols(string2, start, i, char1, prev_char1, j + 1, j_end,
                 [c1 |-> MapInsert(st.c1, j, current_cost),
                  p1 |-> MapInsert(st.p1, j, diag),
                  left_char_cost |-> left_char_cost,
                  above_char_cost |-> current_cost,
                  next_trans_cost |-> next_trans_cost,
                  current_cost |-> current_cost,
                  char2 |-> char2])

\* The inner loop of both core functions, for row i and the columns j up to
\* j_end.  st holds char1_costs (c1), prev_char1_costs (p1) and the scalars
\* of the row.
core_cols(string2, start, i, char1, prev_char1, j, j_end, st) ==
  IF j >= j_end THEN st
  ELSE IF j \notin DOMAIN st.c1
  THEN st.c1[j]   \* char1_costs[&j] aborts on a missing key
  ELSE
    LET this_trans_cost == st.next_trans_cost
        next_trans_cost == IF j \in DOMAIN st.p1 THEN st.p1[j] ELSE 0
        diag == st.left_char_cost
        left_char_cost == st.c1[j]
        prev_char2 == st.char2
        char2 == gc_at(string2, start + j)
        m1 == IF st.above_char_cost < diag THEN st.above_char_cost ELSE diag
        m2 == IF left_char_cost < m1 THEN left_char_cost ELSE m1
        current_cost ==
          IF char1 # char2
          THEN IF i # 0 /\ j # 0 /\ char1 = prev_char2 /\ prev_char1 = char2
                  /\ this_trans_cost + 1 < m2 + 1
               THEN this_trans_cost + 1 ELSE m2 + 1
          ELSE diag
    IN core_cols(string2, start, i, char1, prev_char1, j + 1, j_end,
                 [c1 |-> MapInsert(st.c1, j, current_cost),
                  p1 |-> MapInsert(st.p1, j, diag),
                  left_char_cost |-> left_char_cost,
                  above_char_cost |-> current_cost,
                  next_trans_cost |-> next_trans_cost,
                  current_cost |-> current_cost,
                  char2 |-> char2])

\* the scalars a row starts from
RowStart(c1, p1, i, current_cost) ==
  [c1 |-> c1, p1 |-> p1, left_char_cost |-> i, above_char_cost |-> i,
   next_trans_cost |-> 0, current_cost |-> current_cost, char2 |-> Blank]

RECURSIVE fill(_, _, _, _)
\* for j in from..to-1 { costs.insert(j, value(j)) }
fill(c1, from, to, cap) ==
  IF from >= to THEN c1
  ELSE fill(MapInsert(c1, from, IF cap = None THEN from + 1 ELSE cap), from + 1, to, cap)

RECURSIVE core_rows(_, _, _, _, _, _, _, _)
\* the outer loop of core_damerau_levenshtein from row i on; st is the
\* state the row before left (the cost maps and current_cost)
core_rows(string1, string2, len1, len2, start, i, char1, st) ==
  IF i >= len1 THEN [res |-> st.current_cost, c1 |-> st.c1, p1 |-> st.p1]
  ELSE core_rows(string1, string2, len1, len2, start, i + 1,
                 gc_at(string1, start + i),
                 core_cols(string2, start, i, gc_at(string1, start + i), char1, 0, len2,
                           RowStart(st.c1, st.p1, i, st.current_cost)))

\* core_damerau_levenshtein.  cmp is the pair of cost maps the comparator
\* keeps between calls.  Returns [res, c1, p1].
core_damerau_levenshtein(string1, string2, len1, len2, start, cmp) ==
  core_rows(string1, string2, len1, len2, start, 0, Blank,
            RowStart(fill(cmp.c1, 0, len2, None), cmp.p1, 0, 0))

\* a band whose end stays where it started: j_end is never advanced
j_end_kept(j_end, len2) == j_end

\* if j_end < len2 { j_end += 1; }
j_end_next(j_end, len2) == IF j_end < len2 THEN j_end + 1 ELSE j_end

\* if i as i32 > j_offset { j_start += 1; }
j_start_next(j_start, i, j_offset) == IF i > j_offset THEN j_start + 1 ELSE j_start

\* The rows the banded core has finished, with the cell the test of line 167
\* read after the last of them: the row before rs.i, when there is one.
band_of(len1, len2, max_distance, rs, st) ==
  [len1 |-> len1, len2 |-> len2, max_distance |-> max_distance, rows |-> rs.rows,
   cells |-> IF rs.i > 0 THEN Append(rs.cells, st.c1[(rs.i - 1) + (len2 - len1)])
             ELSE rs.cells]

RECURSIVE core_rows2(_, _, _, _, _, _, _, _, _)
\* the outer loop of core_damerau_levenshtein2 from row rs.i on; rs holds
\* i, j_start, j_end and char1, st is the state the row before left.  The
\* test that ends a row is made first: the band has left max_distance.
\* rs.rows and rs.cells record the columns j_start..j_end of each row and the
\* cell tested after it; the result carries them as band.
core_rows2(string1, string2, len1, len2, start, max_distance, j_offset, rs, st) ==
  IF rs.i > 0 /\ st.c1[(rs.i - 1) + (len2 - len1)] > max_distance
  THEN [res |-> None, c1 |-> st.c1, p1 |-> st.p1,
        band |-> band_of(len1, len2, max_distance, rs, st)]
  ELSE IF rs.i >= len1
  THEN [res |-> IF st.current_cost <= max_distance THEN st.current_cost ELSE None,
        c1 |-> st.c1, p1 |-> st.p1,
        band |-> band_of(len1, len2, max_distance, rs, st)]
  ELSE
    LET i == rs.i
        j_start == j_start_next(rs.j_start, i, j_offset)
        j_end == j_end_next(rs.j_end, len2)
    IN core_rows2(string1, string2, len1, len2, start, max_distance, j_offset,
                  [i |-> i + 1, j_start |-> j_start, j_end |-> j_end,
                   char1 |-> gc_at(string1, start + i),
                   rows |-> Append(rs.rows, [i |-> i, j_start |-> j_start, j_end |-> j_end]),
                   cells |-> band_of(len1, len2, max_distance, rs, st).cells],
                  core_cols(string2, start, i, gc_at(string1, start + i), rs.char1,
                            j_start, j_end,
                            RowStart(st.c1, st.p1, i, st.current_cost)))

\* core_damerau_levenshtein2 (called with max_distance < len2)
core_damerau_levenshtein2(string1, string2, len1, len2, start, max_distance, cmp) ==
  core_rows2(string1, string2, len1, len2, start, max_distance,
             max_distance - (len2 - len1),
             [i |-> 0, j_start |-> 0, j_end |-> max_distance, char1 |-> Blank,
              rows |-> <<>>, cells |-> <<>>],
             RowStart(fill(fill(cmp.c1, 0, max_distance, None),
                           max_distance, len2, max_distance + 1),
                      cmp.p1, 0, 0))

\* the band of a comparison the banded core took no part in
NoBand == [len1 |-> 0, len2 |-> 0, max_distance |-> 0, rows |-> <<>>, cells |-> <<>>]

\* a comparator result that leaves the cost maps alone
Plain(res, cmp) == [res |-> res, c1 |-> cmp.c1, p1 |-> cmp.p1]

\* A distance2 that runs the unbounded core where the banded one is due: it
\* answers with a distance above max_distance instead of None.
distance2_core_unbounded(string1, string2, p, max_distance, cmp) ==
  IF p[1] = 0 THEN Plain(IF p[2] <= max_distance THEN p[2] ELSE None, cmp)
  ELSE core_damerau_levenshtein(string1, string2, p[1], p[2], p[3], cmp)

\* distance2 from line 330 on, p the result of prefix_suffix_prep
distance2_core(string1, string2, p, max_distance, cmp) ==
  IF p[1] = 0 THEN Plain(IF p[2] <= max_distance THEN p[2] ELSE None, cmp)
  ELSE IF max_distance < p[2]
  THEN core_damerau_levenshtein2(string1, string2, p[1], p[2], p[3], max_distance, cmp)
  ELSE core_damerau_levenshtein(string1, string2, p[1], p[2], p[3], cmp)

\* DamaerauOSA::distance2 (EditDistance::compare with Some(max_distance)).
\* Returns [res, c1, p1]; res is None when max_distance is exceeded.
distance2(a, b, max_distance, cmp) ==
  IF a = <<>> \/ b = <<>> THEN Plain(null_distance_results(a, b, max_distance), cmp)
  ELSE IF max_distance <= 0 THEN Plain(IF a = b THEN 0 ELSE None, cmp)
  ELSE
    LET str1_len == gc_len(a)
        str2_len == gc_len(b)
        string1 == IF str1_len > str2_len THEN b ELSE a
        string2 == IF str1_len > str2_len THEN a ELSE b
    IN IF str2_len > str1_len /\ str2_len - str1_len > max_distance
       THEN Plain(None, cmp)
       ELSE distance2_core(string1, string2, prefix_suffix_prep(string1, string2),
                           max_distance, cmp)

\* distance from line 289 on, p the result of prefix_suffix_prep
distance_core(string1, string2, p, cmp) ==
  IF p[1] = 0 THEN Plain(p[2], cmp)
  ELSE core_damerau_levenshtein(string1, string2, p[1], p[2], p[3], cmp)

\* A distance that answers 0 when the second string is empty.
distance_empty_second(a, b, cmp) ==
  IF a = <<>> THEN Plain(gc_len(b), cmp)
  ELSE IF b = <<>> THEN Plain(0, cmp)
  ELSE
    LET string1 == IF gc_len(a) > gc_len(b) THEN b ELSE a
        string2 == IF gc_len(a) > gc_len(b) THEN a ELSE b
    IN distance_core(string1, string2, prefix_suffix_prep(string1, string2), cmp)

\* DamaerauOSA::distance (EditDistance::compare with None)
distance(a, b, cmp) ==
  IF a = <<>> THEN Plain(gc_len(b), cmp)
  ELSE IF b = <<>> THEN Plain(gc_len(a), cmp)
  ELSE
    LET string1 == IF gc_len(a) > gc_len(b) THEN b ELSE a
        string2 == IF gc_len(a) > gc_len(b) THEN a ELSE b
    IN distance_core(string1, string2, prefix_suffix_prep(string1, string2), cmp)

\* DamaerauOSA::new
NewComparator == [c1 |-> EmptyMap, p1 |-> EmptyMap]

\* ----------------------------------------------------------------- lookup
\* a - b on usize.  For a < b the result wraps around in a build without
\* overflow checks (release) and the subtraction aborts in a build with
\* them (debug): underflow flags the case, v is the wrapped value.
usize_sub(a, b) ==
  IF a >= b THEN [underflow |-> FALSE, v |-> a - b]
  ELSE [underflow |-> TRUE, v |-> (UsizeMax - (b - a)) + 1]

\* &s[i..] with a byte index i: aborts unless i is a grapheme boundary
byte_suffix(s, i) ==
  IF \E n \in 0..Len(s) : byte_offset(s, n) = i
  THEN LET n == CHOOSE n \in 0..Len(s) : byte_offset(s, n) = i
       IN [panic |-> FALSE, str |-> SubSeq(s, n + 1, Len(s))]
  ELSE [panic |-> TRUE, str |-> <<>>]

\* SuggestItem::new
SuggestItem(term, dist, count) == [term |-> term, distance |-> dist, count |-> count]

\* str::contains for a pattern of one grapheme
contains(s, g) == \E n \in 1..Len(s) : s[n] = g

\* the closure should_continue of lookup.  Returns [panic, underflow, v].
should_continue(prefix_len, suggestion_len, max_edit_distance, candidate_len, input_len, suggestion, input) ==
  LET min0 == Min(input_len, suggestion_len)
      d == usize_sub(prefix_len, max_edit_distance)
  IN IF d.v = candidate_len /\ min0 > prefix_len
     THEN
       LET min == min0 - prefix_len
           i == input_len + 1 - min
           j == suggestion_len + 1 - min
           k == input_len - min
           l == suggestion_len - min
           si == byte_suffix(input, i)
           sj == byte_suffix(suggestion, j)
       IN IF si.panic \/ sj.panic
          THEN [panic |-> TRUE, underflow |-> d.underflow, v |-> FALSE]
          ELSE [panic |-> FALSE, underflow |-> d.underflow,
                v |-> \/ si.str # sj.str
                      \/ /\ min > 0
                         /\ gc_at(input, k) # gc_at(suggestion, l)
                         /\ \/ gc_at(input, k - 1) # gc_at(suggestion, l)
                            \/ gc_at(input, k) # gc_at(suggestion, l - 1)]
     ELSE [panic |-> FALSE, underflow |-> d.underflow, v |-> FALSE]

RECURSIVE delete_in_suggestion_prefix_loop(_, _, _, _, _)
\* the for loop of delete_in_suggestion_prefix from delete position n on
delete_in_suggestion_prefix_loop(delete, suggestion, suggestion_len, n, j) ==
  IF n > Len(delete) THEN TRUE
  ELSE IF j < suggestion_len /\ delete[n] # gc_at(suggestion, j)
  THEN delete_in_suggestion_prefix_loop(delete, suggestion, suggestion_len, n, j + 1)
  ELSE IF j = suggestion_len THEN FALSE
  ELSE delete_in_suggestion_prefix_loop(delete, suggestion, suggestion_len, n + 1, j)

\* delete_in_suggestion_prefix
delete_in_suggestion_prefix(prefix_len, delete, suggestion) ==
  IF gc_len(delete) = 0 THEN TRUE
  ELSE delete_in_suggestion_prefix_loop(delete, suggestion,
                                        Min(gc_len(suggestion), prefix_len), 1, 0)

\* lookup, lines 446-471: the suggestion si with distance <= max2 is put
\* into the list as the verbosity asks
\* An add_suggestion that keeps what was found before: it neither replaces
\* the suggestion of Top nor clears the list of Closest.
add_suggestion_keeping(verbosity, st, si) ==
  [st EXCEPT !.max2 = IF verbosity # "All" THEN si.distance ELSE @,
             !.suggestions = Append(@, si)]

\* An add_suggestion whose Top keeps the suggestion met first at a
\* distance: a larger count does not replace it.
add_suggestion_first(verbosity, st, si) ==
  IF st.suggestions # <<>> /\ verbosity = "Top"
  THEN IF si.distance < st.max2
       THEN [st EXCEPT !.max2 = si.distance, !.suggestions = <<si>> \o Tail(@)]
       ELSE st
  ELSE
    LET kept == IF st.suggestions # <<>> /\ verbosity = "Closest" /\ si.distance < st.max2
                THEN <<>> ELSE st.suggestions
    IN [st EXCEPT !.max2 = IF verbosity # "All" THEN si.distance ELSE @,
                  !.suggestions = Append(kept, si)]

add_suggestion(verbosity, st, si) ==
  IF st.suggestions # <<>> /\ verbosity = "Top"
  THEN IF si.distance < st.max2 \/ si.count > st.suggestions[1].count
       THEN [st EXCEPT !.max2 = si.distance, !.suggestions = <<si>> \o Tail(@)]
       ELSE st
  ELSE
    LET kept == IF st.suggestions # <<>> /\ verbosity = "Closest" /\ si.distance < st.max2
                THEN <<>> ELSE st.suggestions
    IN [st EXCEPT !.max2 = IF verbosity # "All" THEN si.distance ELSE @,
                  !.suggestions = Append(kept, si)]

\* lookup, lines 446-448: a suggestion at distance dist is kept when dist
\* does not exceed max_edit_distance2; its count is that of `words`, or 0
found(self, c, st, suggestion, dist) ==
  IF dist <= st.max2
  THEN add_suggestion(c.verbosity, st,
         SuggestItem(suggestion, dist,
                     IF suggestion \in DOMAIN self.words
                     THEN self.words[suggestion] ELSE 0))
  ELSE st

\* lookup, lines 436-448: cmp is the answer of the comparator
compared(self, c, st, suggestion, cmp) ==
  IF cmp.res = None
  THEN [st EXCEPT !.comparator = [c1 |-> cmp.c1, p1 |-> cmp.p1]]
  ELSE found(self, c, [st EXCEPT !.comparator = [c1 |-> cmp.c1, p1 |-> cmp.p1]],
             suggestion, cmp.res)

\* lookup, lines 429-441: sc is the answer of should_continue
verify(self, c, st, suggestion, sc) ==
  IF sc.panic THEN [st EXCEPT !.underflow = @ \/ sc.underflow, !.panic = TRUE]
  ELSE IF \/ sc.v
          \/ /\ c.verbosity # "All"
             /\ ~delete_in_suggestion_prefix(self.prefix_length, c.candidate, suggestion)
          \/ suggestion \in st.suggestions_considered
  THEN [st EXCEPT !.underflow = @ \/ sc.underflow]
  ELSE compared(self, c,
                [st EXCEPT !.underflow = @ \/ sc.underflow,
                           !.suggestions_considered = @ \cup {suggestion}],
                suggestion,
                distance2(c.input, suggestion, st.max2, st.comparator))

\* lookup, lines 393-471: the body of the loop over the suggestions of a
\* bucket.  c holds the arguments of lookup and the current candidate.
process_suggestion(self, c, st, suggestion) ==
  LET suggestion_len == gc_len(suggestion)
      suggestion_prefix_len == Min(suggestion_len, self.prefix_length)
  IN
  IF suggestion = c.input THEN st
  ELSE IF \/ suggestion_len > c.input_len /\ suggestion_len - c.input_len > st.max2
          \/ suggestion_len < c.candidate_len
          \/ suggestion_len = c.candidate_len /\ suggestion # c.candidate
  THEN st
  ELSE IF /\ suggestion_prefix_len > c.input_prefix_len
          /\ suggestion_prefix_len - c.candidate_len > st.max2
  THEN st
  ELSE IF c.candidate_len = 0
  THEN IF \/ Max(c.input_len, suggestion_len) > st.max2
          \/ suggestion \in st.suggestions_considered
       THEN st
       ELSE found(self, c, [st EXCEPT !.suggestions_considered = @ \cup {suggestion}],
                  suggestion, Max(c.input_len, suggestion_len))
  ELSE IF suggestion_len = 1
  THEN found(self, c, st, suggestion,
             IF contains(c.input, suggestion[1])
             THEN c.input_len ELSE c.input_len - 1)
  ELSE verify(self, c, st, suggestion,
              should_continue(self.prefix_length, suggestion_len, c.max_edit_distance,
                              c.candidate_len, c.input_len, suggestion, c.input))

RECURSIVE bucket_loop(_, _, _, _, _)
\* lookup, line 392: for suggestion in dict_suggestions, from position n on
bucket_loop(self, c, st, dict_suggestions, n) ==
  IF st.panic \/ n > Len(dict_suggestions) THEN st
  ELSE bucket_loop(self, c, process_suggestion(self, c, st, dict_suggestions[n]),
                   dict_suggestions, n + 1)

RECURSIVE expand_loop(_, _, _)
\* lookup, lines 484-496: the deletes of candidate are queued
expand_loop(candidate, n, st) ==
  IF n > Len(candidate) THEN st
  ELSE LET d == delete_at(candidate, n) IN
       IF d.panic THEN [st EXCEPT !.panic = TRUE]
       ELSE IF d.delete \in st.deletes_considered
       THEN expand_loop(candidate, n + 1, st)
       ELSE expand_loop(candidate, n + 1,
                        [st EXCEPT !.deletes_considered = @ \cup {d.delete},
                                   !.candidates = Append(@, d.delete)])

\* lookup, lines 477-497: the deletes of the candidate are queued unless
\* the edit distance is used up; st is the state after the bucket loop
expand(self, a, candidate, len_diff, st) ==
  IF /\ ~st.panic
     /\ len_diff < a.max_edit_distance
     /\ gc_len(candidate) <= self.prefix_length
     /\ ~(a.verbosity # "All" /\ len_diff >= st.max2)
  THEN expand_loop(candidate, 1, st)
  ELSE st

RECURSIVE candidates_loop(_, _, _, _)
\* lookup, lines 371-498: the loop over the queue of candidates.  a holds
\* the arguments of lookup.
candidates_loop(self, a, st, candidate_pointer) ==
  IF st.panic \/ candidate_pointer >= Len(st.candidates) THEN st
  ELSE
    LET candidate == st.candidates[candidate_pointer + 1]
        candidate_len == gc_len(candidate)
        len_diff == a.input_prefix_len - candidate_len
    IN
    IF len_diff > st.max2
    THEN IF a.verbosity = "All"
         THEN candidates_loop(self, a, st, candidate_pointer + 1)
         ELSE st
    ELSE
      LET str_hash == get_string_hash(self.hash_kind, candidate)
          c == [input |-> a.input, verbosity |-> a.verbosity,
                max_edit_distance |-> a.max_edit_distance,
                input_len |-> a.input_len, input_prefix_len |-> a.input_prefix_len,
                candidate |-> candidate, candidate_len |-> candidate_len]
      IN candidates_loop(self, a,
                         expand(self, a, candidate, len_diff,
                                IF str_hash \in DOMAIN self.deletes
                                THEN bucket_loop(self, c, st, self.deletes[str_hash], 1)
                                ELSE st),
                         candidate_pointer + 1)

\* the comparator of the final sort_by: ascending when less than 0
sort_cmp(x, y) ==
  IF x.distance = y.distance
  THEN (IF y.count < x.count THEN -1 ELSE IF y.count > x.count THEN 1 ELSE 0)
  ELSE (IF y.distance < x.distance THEN -1 ELSE 1)

RECURSIVE insert_sorted(_, _)
\* x goes behind every element that does not sort after it (stable)
insert_sorted(sorted, x) ==
  IF sorted = <<>> THEN <<x>>
  ELSE IF sort_cmp(sorted[Len(sorted)], x) <= 0 THEN Append(sorted, x)
  ELSE Append(insert_sorted(SubSeq(sorted, 1, Len(sorted) - 1), x), sorted[Len(sorted)])

RECURSIVE sort_by(_)
\* Vec::sort_by with sort_cmp, a stable sort
sort_by(s) ==
  IF s = <<>> THEN <<>>
  ELSE insert_sorted(sort_by(SubSeq(s, 1, Len(s) - 1)), s[Len(s)])

\* the closure end of lookup
end(input, max_edit_distance, include_unknown, suggestions) ==
  IF include_unknown /\ suggestions = <<>>
  THEN <<SuggestItem(input, max_edit_distance + 1, 0)>>
  ELSE suggestions

\* lookup, lines 499-507: st is the state the candidate loop ends in
sorted_end(input, max_edit_distance, include_unknown, underflow, st) ==
  IF st.panic THEN [panic |-> TRUE, underflow |-> underflow \/ st.underflow, out |-> <<>>]
  ELSE [panic |-> FALSE, underflow |-> underflow \/ st.underflow,
        out |-> end(input, max_edit_distance, include_unknown,
                    IF Len(st.suggestions) > 1 THEN sort_by(st.suggestions)
                    ELSE st.suggestions)]

\* SymSpell::lookup.  Returns [panic, underflow, out]: out is the list a
\* build without overflow checks returns, underflow tells that a usize
\* subtraction wrapped on the way, where a build with overflow checks aborts.
lookup(self, input, verbosity, max_edit_distance, include_unknown) ==
  LET input_len == gc_len(input)
      too_long == usize_sub(input_len, max_edit_distance)
      early == [panic |-> FALSE, underflow |-> too_long.underflow,
                out |-> end(input, max_edit_distance, include_unknown, <<>>)]
      input_prefix_len == Min(input_len, self.prefix_length)
      a == [input |-> input, verbosity |-> verbosity,
            max_edit_distance |-> max_edit_distance,
            input_len |-> input_len, input_prefix_len |-> input_prefix_len]
      st0 == [candidates |-> <<SubSeq(input, 1, input_prefix_len)>>,
              deletes_considered |-> {},
              suggestions_considered |-> {input},
              max2 |-> max_edit_distance,
              suggestions |-> <<>>,
              comparator |-> NewComparator,
              underflow |-> FALSE,
              panic |-> FALSE]
  IN
  IF too_long.v > self.max_dictionary_word_length THEN early
  ELSE IF input \in DOMAIN self.words /\ verbosity # "All" THEN early
  ELSE IF max_edit_distance = 0 THEN early
  ELSE sorted_end(input, max_edit_distance, include_unknown, too_long.underflow,
                  candidates_loop(self, a, st0, 0))


\* ------------------------------------------------------- dictionary lines
\* the separator the lines are written with, a blank and a digit
Separator == ","
Space == " "
Digits == {"1"}

RECURSIVE split(_, _, _)
\* the fields of line between the separators; cur is the field being read
split(line, separator, cur) ==
  IF line = <<>> THEN <<cur>>
  ELSE IF Head(line) = separator
  THEN <<cur>> \o split(Tail(line), separator, <<>>)
  ELSE split(Tail(line), separator, Append(cur, Head(line)))

RECURSIVE trim_end(_)
\* str::trim_end
trim_end(s) ==
  IF s # <<>> /\ s[Len(s)] = Space THEN trim_end(SubSeq(s, 1, Len(s) - 1)) ELSE s

RECURSIVE decimal(_)
\* the value of a string of digits
decimal(s) == IF s = <<>> THEN 0 ELSE 10 * decimal(SubSeq(s, 1, Len(s) - 1)) + 1

\* trim_end().parse::<usize>().unwrap_or(0)
parse_count(field) ==
  LET s == trim_end(field) IN
  IF s # <<>> /\ \A i \in 1..Len(s) : s[i] \in Digits THEN decimal(s) ELSE 0

\* write_line_to_bigram_dictionary.  Returns [self, panic]: parts[1] and
\* parts[2] are indexed without a test of parts.len().
write_line_to_bigram_dictionary(self, line, separator) ==
  LET parts == split(line, separator, <<>>) IN
  IF Len(parts) < 3 THEN [self |-> self, panic |-> TRUE]
  ELSE LET key == parts[1] \o <<Space>> \o parts[2]
           count == parse_count(parts[3])
       IN [self |-> [self EXCEPT
                       !.bigrams = MapInsert(@, key, count),
                       !.bigram_count_min = IF count < @ THEN count ELSE @],
           panic |-> FALSE]

\* write_line_to_dictionary.  Returns [self, panic]: the loop of line 171
\* slices the line one byte at a time, which aborts inside a grapheme that
\* is longer than one byte.
write_line_to_dictionary(self, line, separator) ==
  IF \E i \in 1..Len(line) : grapheme_len(line[i]) > 1
  THEN [self |-> self, panic |-> TRUE]
  ELSE LET parts == split(line, separator, <<>>) IN
       IF Len(parts) < 2 THEN [self |-> self, panic |-> FALSE]
       ELSE LET r == create_dictionary_entry(self, parts[1], parse_count(parts[2]))
            IN [self |-> r.self, panic |-> r.panic]


\* ------------------------------------------------------------ parse_words
\* utils::is_alpha_numeric: letters and '_' only; digits, space and comma
\* are not in the listed ranges, e-acute (0xE9) is.
is_alpha_numeric(g) == g \in {"a", "b", Wide, Euro, Rocket}

\* the bytes of a grapheme that a byte slice cut in two
Torn == "torn"

\* text.get_unchecked(lo..hi) with byte indices: the graphemes that start
\* in lo..hi; a grapheme cut by hi leaves its leading bytes in the slice.
get_unchecked(text, lo, hi) ==
  LET first == CHOOSE n \in 0..Len(text) :
                 byte_offset(text, n) >= lo /\ \A m \in 0..(n - 1) : byte_offset(text, m) < lo
      whole == {n \in 1..Len(text) : byte_offset(text, n - 1) >= lo /\ byte_offset(text, n) <= hi}
      torn == \E n \in 1..Len(text) : byte_offset(text, n - 1) < hi /\ byte_offset(text, n) > hi
  IN SubSeq(text, first + 1, first + Cardinality(whole)) \o (IF torn THEN <<Torn>> ELSE <<>>)

RECURSIVE parse_words_loop(_, _, _)
\* the loop of parse_words over the graphemes of text, n the 1-based
\* position of the grapheme at hand
parse_words_loop(text, n, st) ==
  IF n > Len(text) THEN st
  ELSE LET range_end == byte_offset(text, n)
           alpha_numeric == is_alpha_numeric(text[n])
       IN parse_words_loop(text, n + 1,
            [words |-> IF ~alpha_numeric /\ st.last_char_alpha_numeric
                       THEN Append(st.words, get_unchecked(text, st.cursor, range_end - 1))
                       ELSE st.words,
             cursor |-> IF alpha_numeric THEN st.cursor ELSE range_end,
             last_char_alpha_numeric |-> alpha_numeric])

parse_words_end(text, st) ==
  IF st.last_char_alpha_numeric /\ st.cursor # byte_len(text)
  THEN Append(st.words, get_unchecked(text, st.cursor, byte_len(text)))
  ELSE st.words

parse_words(text) ==
  parse_words_end(text, parse_words_loop(text, 1,
    [words |-> <<>>, cursor |-> 0, last_char_alpha_numeric |-> FALSE]))


\* -------------------------------------------------------- lookup_compound
\* N, the corpus size of sym_spell.rs:46, is 1024908267229 and exceeds the
\* integers of TLC: NDivUsize is N / 2^31 and NDiv2Pow32 is N / 2^32,
\* both rounded down.
NDivUsize == 477
NDiv2Pow32 == 238

\* (count1 as f64 / N * count2 as f64) as usize.  The product of two counts
\* of which one is at most N / 2^31 is below N and the cast gives 0; a
\* larger quotient is computed on the leading 15 bits of the counts.
naive_bayes(count1, count2) ==
  IF count1 <= NDivUsize \/ count2 <= NDivUsize THEN 0
  ELSE ((count1 \div 65536) * (count2 \div 65536)) \div NDiv2Pow32

\* 10 / 10^term_len cast to usize, the estimate for an unknown word
unknown_estimate(term_len) ==
  IF term_len = 0 THEN 10 ELSE IF term_len = 1 THEN 1 ELSE 0

\* Option::None for the best split
NoSplit == [term |-> <<>>, distance |-> None, count |-> None]

\* self.lookup(input, Verbosity::Top, max_edit_distance, false) as
\* lookup_compound sees it: with overflow checks the subtraction of
\* sym_spell.rs:301 aborts where it would wrap around
top_result(a, r) ==
  [panic |-> r.panic \/ (a.overflow_checks /\ r.underflow), out |-> r.out]

lookup_top(self, a, input) ==
  top_result(a, lookup(self, input, "Top", a.max_edit_distance, FALSE))

\* the count of a split, lines 606-630; suggestions1[0] aborts on an empty
\* list
split_count(self, a, term, suggestions, suggestions1, suggestions2, split_term) ==
  IF suggestions1 = <<>> THEN [panic |-> TRUE, count |-> 0]
  ELSE IF split_term \in DOMAIN self.bigrams
  THEN LET count == self.bigrams[split_term]
           term_compare == suggestions1[1].term \o suggestions2[1].term
       IN IF term = term_compare
          THEN [panic |-> FALSE, count |-> Max(count, suggestions[1].count)]
          ELSE IF \/ suggestions1[1].term = suggestions[1].term
                  \/ suggestions2[1].term = suggestions[1].term
          THEN IF suggestions[1].count = UsizeMax
               THEN [panic |-> a.overflow_checks, count |-> Max(count, 0)]
               ELSE [panic |-> FALSE, count |-> Max(count, suggestions[1].count + 1)]
          ELSE [panic |-> FALSE, count |-> count]
  ELSE [panic |-> FALSE,
        count |-> Min(self.bigram_count_min,
                      naive_bayes(suggestions1[1].count, suggestions2[1].count))]

\* lines 631-633
split_choose(sp, split_term, distance2v, c) ==
  IF c.panic THEN [sp EXCEPT !.panic = TRUE]
  ELSE IF sp.best = NoSplit \/ c.count > sp.best.count
  THEN [sp EXCEPT !.best = SuggestItem(split_term, distance2v, c.count)]
  ELSE sp

\* lines 592-633, d the result of distance_comparator.compare
split_compare(self, a, term, suggestions, sp, suggestions1, suggestions2, split_term, d) ==
  IF sp.best # NoSplit /\ (IF d.res = None THEN a.max_edit_distance + 1 ELSE d.res) > sp.best.distance
  THEN [sp EXCEPT !.cmp = [c1 |-> d.c1, p1 |-> d.p1]]
  ELSE split_choose(
         [best |-> IF sp.best # NoSplit /\ (IF d.res = None THEN a.max_edit_distance + 1 ELSE d.res) < sp.best.distance
                   THEN NoSplit ELSE sp.best,
          cmp |-> [c1 |-> d.c1, p1 |-> d.p1],
          panic |-> FALSE],
         split_term,
         IF d.res = None THEN a.max_edit_distance + 1 ELSE d.res,
         split_count(self, a, term, suggestions, suggestions1, suggestions2, split_term))

\* lines 585-634, s2 the lookup of part2
split_pair(self, a, term, suggestions, sp, suggestions1, s2) ==
  IF s2.panic THEN [sp EXCEPT !.panic = TRUE]
  ELSE IF s2.out = <<>> THEN sp
  ELSE split_compare(self, a, term, suggestions, sp, suggestions1, s2.out,
                     suggestions[1].term \o <<Space>> \o s2.out[1].term,
                     distance2(term, suggestions[1].term \o <<Space>> \o s2.out[1].term,
                               a.max_edit_distance, sp.cmp))

\* one round of the loop of line 576, s1 the lookup of part1; the guard of
\* line 584 tests suggestions, the lookup of the whole term
split_body(self, a, term, suggestions, j, sp, s1) ==
  IF s1.panic THEN [sp EXCEPT !.panic = TRUE]
  ELSE IF suggestions = <<>> THEN sp
  ELSE split_pair(self, a, term, suggestions, sp, s1.out,
                  lookup_top(self, a, SubSeq(term, j + 1, Len(term))))

RECURSIVE split_loop(_, _, _, _, _, _)
\* for j in 1..term_len
split_loop(self, a, term, suggestions, j, sp) ==
  IF sp.panic \/ j >= gc_len(term) THEN sp
  ELSE split_loop(self, a, term, suggestions, j + 1,
                  split_body(self, a, term, suggestions, j, sp,
                             lookup_top(self, a, SubSeq(term, 1, j))))

\* lines 637-642
push_split(a, term, st, sp) ==
  IF sp.panic THEN [st EXCEPT !.panic = TRUE]
  ELSE [parts |-> Append(st.parts,
                    IF sp.best # NoSplit THEN sp.best
                    ELSE SuggestItem(term, unknown_estimate(gc_len(term)),
                                     a.max_edit_distance + 1)),
        last_combi |-> FALSE, cmp |-> sp.cmp, panic |-> FALSE]

\* lines 559-647: the term on its own
single_term(self, a, term, st, suggestions) ==
  IF suggestions # <<>> /\ (suggestions[1].distance = 0 \/ gc_len(term) = 1)
  THEN [st EXCEPT !.parts = Append(@, suggestions[1]), !.last_combi = FALSE]
  ELSE IF gc_len(term) > 1
  THEN push_split(a, term, st,
         split_loop(self, a, term, suggestions, 1,
                    [best |-> IF suggestions # <<>> THEN suggestions[1] ELSE NoSplit,
                     cmp |-> st.cmp, panic |-> FALSE]))
  ELSE [st EXCEPT !.parts = Append(@, SuggestItem(term, unknown_estimate(gc_len(term)),
                                                  a.max_edit_distance + 1)),
                  !.last_combi = FALSE]

\* lines 531-543: best2, the suggestion of the term or the estimate for an
\* unknown word
best2_of(a, term, suggestions) ==
  IF suggestions # <<>> THEN suggestions[1]
  ELSE SuggestItem(term, a.max_edit_distance + 1, unknown_estimate(gc_len(term)))

\* lines 530-556, combi the lookup of the two terms put together
combine(self, a, term, st, suggestions, combi, best1, best2) ==
  IF combi.panic THEN [st EXCEPT !.panic = TRUE]
  ELSE IF /\ combi.out # <<>>
          /\ \/ combi.out[1].distance + 1 < best1.distance + best2.distance
             \/ /\ combi.out[1].distance + 1 = best1.distance + best2.distance
                /\ combi.out[1].count > naive_bayes(best1.count, best2.count)
  THEN [st EXCEPT !.parts = Append(SubSeq(@, 1, Len(@) - 1),
                                   [combi.out[1] EXCEPT !.distance = @ + 1]),
                  !.last_combi = TRUE]
  ELSE single_term(self, a, term, st, suggestions)

\* one round of the loop of line 522, s the lookup of term_list[i]
term_body(self, a, term_list, i, st, s) ==
  IF s.panic THEN [st EXCEPT !.panic = TRUE]
  ELSE IF i > 1 /\ ~st.last_combi
  THEN combine(self, a, term_list[i], st, s.out,
               lookup_top(self, a, term_list[i - 1] \o term_list[i]),
               st.parts[Len(st.parts)], best2_of(a, term_list[i], s.out))
  ELSE single_term(self, a, term_list[i], st, s.out)

RECURSIVE term_loop(_, _, _, _, _)
\* for i in 0..term_list.len(), i 1-based here
term_loop(self, a, term_list, i, st) ==
  IF st.panic \/ i > Len(term_list) THEN st
  ELSE term_loop(self, a, term_list, i + 1,
                 term_body(self, a, term_list, i, st, lookup_top(self, a, term_list[i])))

RECURSIVE join_parts(_, _)
\* lines 654-659: every term is followed by a space, i != len holds for
\* every i of 0..len
join_parts(suggestion_parts, i) ==
  IF i > Len(suggestion_parts) THEN <<>>
  ELSE suggestion_parts[i].term \o <<Space>> \o join_parts(suggestion_parts, i + 1)

RECURSIVE compound_count(_, _, _)
\* lines 650-663: N multiplied by count / N for every part, cast to usize;
\* the quotient is rounded down, the rounding of f64 is not modelled
compound_count(suggestion_parts, i, count) ==
  IF i > Len(suggestion_parts) THEN count
  ELSE compound_count(suggestion_parts, i + 1,
                      IF count = None THEN suggestion_parts[i].count
                      ELSE naive_bayes(count, suggestion_parts[i].count))

\* lines 650-667, d the distance of the input and the joined term
compound_end(st, s, d) ==
  IF st.panic THEN [panic |-> TRUE, out |-> <<>>, parts |-> <<>>]
  ELSE [panic |-> FALSE,
        out |-> <<SuggestItem(s, IF d.res = None THEN 0 ELSE d.res,
                              IF st.parts = <<>> THEN UsizeMax
                              ELSE compound_count(st.parts, 1, None))>>,
        parts |-> st.parts]

compound_join(input, st, s) ==
  compound_end(st, s, distance2(input, s, UsizeMax, st.cmp))

compound_parts(input, st) == compound_join(input, st, join_parts(st.parts, 1))

lookup_compound(self, input, max_edit_distance, overflow_checks) ==
  compound_parts(input,
    term_loop(self, [max_edit_distance |-> max_edit_distance,
                     overflow_checks |-> overflow_checks],
              parse_words(input), 1,
              [parts |-> <<>>, last_combi |-> FALSE, cmp |-> NewComparator,
               panic |-> FALSE]))


\* ------------------------------------------------------ word_segmentation
\* Option::None of max_segmentation_word_len_opt
NoLen == -1

\* N is about 10^12; the logarithms of word_segmentation are rounded to
\* whole numbers
Log10N == 12

RECURSIVE log10(_)
log10(n) == IF n < 10 THEN 0 ELSE 1 + log10(n \div 10)

\* (count as f64 / N).log10(); the logarithm of 0 is -inf
count_log(count) == IF count = 0 THEN -UsizeMax ELSE log10(count) - Log10N

\* (10.0 / (N * 10^part_len)).log10()
unknown_log(part_len) == 1 - Log10N - part_len

\* part.replace(" ", "")
remove_spaces(part) == SelectSeq(part, LAMBDA g : g # Space)

\* the part of lines 692-701: the graphemes j..i of the input or, when the
\* input begins with white space, its bytes j + 1..i; a range that runs
\* backwards is undefined behaviour of get_unchecked
segment_part(input, j, i) ==
  IF input[1] = Space
  THEN [ub |-> j + 1 > i \/ j > i, separator_len |-> 0,
        part |-> IF j + 1 > i THEN <<>> ELSE get_unchecked(input, j + 1, i)]
  ELSE [ub |-> j > i \/ grapheme_len(input[1]) > 1, separator_len |-> 1,
        part |-> SubSeq(input, j + 1, i)]

\* lines 710-725: the top suggestion of the part, or the part itself
segment_top(part, top_edit_distance, results) ==
  IF results # <<>>
  THEN [part |-> part, top_result |-> results[1].term,
        top_edit_distance |-> top_edit_distance + results[1].distance,
        top_probability_log |-> count_log(results[1].count)]
  ELSE [part |-> part, top_result |-> part, top_edit_distance |-> top_edit_distance,
        top_probability_log |-> unknown_log(gc_len(part))]

\* Vec index: compositions[index], 0-based
in_bounds(compositions, index) == index >= 0 /\ index < Len(compositions)

\* lines 741-755: the composition at destination_index is replaced when the
\* one at circular_index followed by the part is better
segment_combine(st, i, max_segmentation_word_len, separator_len, t, destination_index) ==
  IF ~in_bounds(st.compositions, destination_index) \/ ~in_bounds(st.compositions, st.circular_index)
  THEN [st EXCEPT !.panic = TRUE, !.oob = TRUE]
  ELSE LET d == st.compositions[destination_index + 1]
           c == st.compositions[st.circular_index + 1]
       IN IF \/ i = max_segmentation_word_len
             \/ /\ \/ c.distance_sum + t.top_edit_distance = d.distance_sum
                   \/ c.distance_sum + separator_len + t.top_edit_distance = d.distance_sum
                /\ d.probability_log_sum < c.probability_log_sum
             \/ c.distance_sum + separator_len + t.top_edit_distance < d.distance_sum
          THEN [st EXCEPT !.compositions[destination_index + 1] =
                  [segmented_string |-> c.segmented_string \o <<Space>> \o t.part,
                   corrected_string |-> c.corrected_string \o <<Space>> \o t.top_result,
                   distance_sum |-> c.distance_sum + separator_len + t.top_edit_distance,
                   probability_log_sum |-> c.probability_log_sum + t.top_probability_log]]
          ELSE st

\* lines 727-739: the first column sets the composition, an index
\* assignment to a Vec that aborts beyond its length
segment_store(st, j, i, max_segmentation_word_len, separator_len, t, destination_index) ==
  IF j = 0 /\ ~in_bounds(st.compositions, destination_index)
  THEN [st EXCEPT !.panic = TRUE, !.oob = TRUE]
  ELSE IF st.circular_index = -1
  THEN IF j = 0
       THEN [st EXCEPT !.compositions[destination_index + 1] =
               [segmented_string |-> t.part, corrected_string |-> t.top_result,
                distance_sum |-> t.top_edit_distance,
                probability_log_sum |-> t.top_probability_log]]
       ELSE st
  ELSE segment_combine(
         IF j = 0
         THEN [st EXCEPT !.compositions[destination_index + 1] =
                 [segmented_string |-> t.part, corrected_string |-> t.top_result,
                  distance_sum |-> t.top_edit_distance,
                  probability_log_sum |-> t.top_probability_log]]
         ELSE st,
         i, max_segmentation_word_len, separator_len, t, destination_index)

\* lines 692-755 for one part, p the part and r its lookup
segment_body(st, a, j, i, p, r) ==
  IF r.panic THEN [st EXCEPT !.panic = TRUE]
  ELSE IF a.capacity = 0 THEN [st EXCEPT !.panic = TRUE]
  ELSE segment_store([st EXCEPT !.ub = @ \/ p.ub], j, i, a.max_segmentation_word_len,
                     p.separator_len,
                     segment_top(remove_spaces(p.part),
                                 gc_len(p.part) - gc_len(remove_spaces(p.part)), r.out),
                     (i + st.circular_index) % a.capacity)

segment_lookup(self, st, a, j, i, p) ==
  segment_body(st, a, j, i, p, lookup_top(self, a, remove_spaces(p.part)))

RECURSIVE segment_rows(_, _, _, _, _, _)
\* for i in 1..max + 1
segment_rows(self, input, a, j, i, st) ==
  IF st.panic \/ i > Min(a.max_segmentation_word_len, gc_len(input) - j) THEN st
  ELSE segment_rows(self, input, a, j, i + 1,
                    segment_lookup(self, st, a, j, i, segment_part(input, j, i)))

\* lines 757-760
next_column(st, capacity) ==
  IF st.panic THEN st
  ELSE [st EXCEPT !.circular_index = IF @ + 1 = capacity THEN 0 ELSE @ + 1]

RECURSIVE segment_columns(_, _, _, _, _)
\* for j in 0..input_len
segment_columns(self, input, a, j, st) ==
  IF st.panic \/ j >= gc_len(input) THEN st
  ELSE segment_columns(self, input, a, j + 1,
                       next_column(segment_rows(self, input, a, j, 1, st), a.capacity))

\* line 763: compositions.remove(circular_index as usize)
segment_end(st) ==
  IF st.panic \/ ~in_bounds(st.compositions, st.circular_index)
  THEN [panic |-> TRUE, ub |-> st.ub, oob |-> ~st.panic \/ st.oob, out |-> <<>>]
  ELSE [panic |-> FALSE, ub |-> st.ub, oob |-> FALSE,
        out |-> <<st.compositions[st.circular_index + 1]>>]

segment_with(self, input, max_edit_distance, overflow_checks, max_segmentation_word_len) ==
  segment_end(segment_columns(self, input,
    [max_edit_distance |-> max_edit_distance, overflow_checks |-> overflow_checks,
     max_segmentation_word_len |-> max_segmentation_word_len,
     capacity |-> Min(max_segmentation_word_len, gc_len(input))],
    0,
    [compositions |-> <<>>, circular_index |-> -1, panic |-> FALSE, ub |-> FALSE,
     oob |-> FALSE]))

word_segmentation(self, input, max_edit_distance, max_segmentation_word_len_opt, overflow_checks) ==
  segment_with(self, input, max_edit_distance, overflow_checks,
               IF max_segmentation_word_len_opt = NoLen THEN self.max_dictionary_word_length
               ELSE max_segmentation_word_len_opt)


\* ----------------------------------------------------------------- encode
\* the UTF-8 bytes of a grapheme
utf8(g) ==
  IF g = "a" THEN <<97>> ELSE IF g = "b" THEN <<98>>
  ELSE IF g = Wide THEN <<195, 169>>
  ELSE IF g = Euro THEN <<226, 130, 172>>
  ELSE IF g = Dash THEN <<226, 128, 148>>
  ELSE IF g = Rocket THEN <<240, 159, 154, 128>> ELSE <<32>>

RECURSIVE as_bytes(_)
\* str::as_bytes
as_bytes(s) == IF s = <<>> THEN <<>> ELSE utf8(Head(s)) \o as_bytes(Tail(s))

\* transmute::<u32, [u8; 4]>(n as u32) on a little-endian target such as
\* wasm32; a usize of the model fits 32 bits and the cast changes nothing
transmute(n) ==
  <<n % 256, (n \div 256) % 256, (n \div 65536) % 256, (n \div 16777216) % 256>>

\* SuggestItem::encode
encode(self) ==
  transmute(self.count) \o transmute(self.distance)
    \o transmute(Len(as_bytes(self.term))) \o as_bytes(self.term)

\* ---------------------------------------------------------------- actions
EditDistances == {1, 2}
PrefixLengths == {1, 2}
CountThresholds == {0, 1, 2}

NoRet == [op |-> "new"]

\* SymSpell::new: the assert admits every (dictionary_edit_distance,
\* prefix_length) pair
NewOk(max_dict_edit_dist, prefix_len) == prefix_len >= 1 \/ prefix_len <= max_dict_edit_dist

InitWith(eds, pls, cts, hks) ==
  /\ dictionary_edit_distance \in eds
  /\ prefix_length \in pls
  /\ NewOk(dictionary_edit_distance, prefix_length)
  /\ count_threshold \in cts
  /\ hash_kind \in hks
  /\ max_dictionary_word_length = 0
  /\ deletes = EmptyMap
  /\ words = EmptyMap
  /\ below_threshold_words = EmptyMap
  /\ bigrams = EmptyMap
  /\ bigram_count_min = UsizeMax
  /\ ingested = 0
  /\ aborted = FALSE
  /\ ret = NoRet
  /\ comparator = NewComparator
  /\ twin = EmptyMap
  /\ BUFFER = <<>>
  /\ stream = <<>>
  /\ passed = <<>>
  /\ bytes = <<>>
  /\ byte_indices = <<0>>

InitBuild == InitWith(EditDistances, PrefixLengths, CountThresholds, HashKinds)

SetSelf(s) ==
  /\ max_dictionary_word_length' = s.max_dictionary_word_length
  /\ deletes' = s.deletes
  /\ words' = s.words
  /\ below_threshold_words' = s.below_threshold_words
  /\ bigrams' = s.bigrams
  /\ bigram_count_min' = s.bigram_count_min

CreateDictionaryEntry ==
  /\ ~aborted
  /\ ret.op # "lookup"
  /\ ingested < MaxIngest
  /\ \E key \in Keys(prefix_length), count \in Counts :
       \E r \in {create_dictionary_entry(Self, key, count)} :
         /\ SetSelf(r.self)
         /\ aborted' = r.panic
         /\ ret' = [op |-> "create_dictionary_entry", key |-> key,
                    result |-> r.result, panic |-> r.panic]
  /\ ingested' = ingested + 1
  /\ UNCHANGED <<config, wrapper, clusters, comparator, twin>>

\* lookup takes &self: it leaves the engine as it is.  The run ends with
\* the query, a later query would see the same engine.  max_edit_distance
\* is drawn within the precondition asserted at line 288; overflow_checks
\* is the build profile.
Lookup ==
  /\ ~aborted
  /\ ret.op # "lookup"
  /\ \E input \in Inputs, verbosity \in Verbosities,
        max_edit_distance \in 0..dictionary_edit_distance,
        include_unknown \in BOOLEAN :
       \E r \in {lookup(Self, input, verbosity, max_edit_distance, include_unknown)} :
         \E panic \in {r.panic \/ (overflow_checks /\ r.underflow) :
                          overflow_checks \in BOOLEAN} :
           /\ ret' = [op |-> "lookup", input |-> input, verbosity |-> verbosity,
                      max_edit_distance |-> max_edit_distance,
                      include_unknown |-> include_unknown,
                      panic |-> panic, out |-> IF panic THEN <<>> ELSE r.out]
           /\ aborted' = panic
  /\ UNCHANGED <<config, wrapper, clusters, max_dictionary_word_length, deletes, words,
                 below_threshold_words, bigrams, bigram_count_min, ingested,
                 comparator, twin>>

NextBuild == CreateDictionaryEntry

SpecBuild == InitBuild /\ [][NextBuild]_vars

Init ==
  /\ InitWith({1, 2}, {2, 3}, {1}, {"injective"})
  /\ prefix_length = dictionary_edit_distance + 1

Next == CreateDictionaryEntry \/ Lookup

Spec == Init /\ [][Next]_vars


\* the fields the lines are made of
LineFields == {<<>>, <<"a">>, <<"1">>, <<"1", Space>>, <<Wide>>}

RECURSIVE join(_, _)
\* the fields with the separator between them
join(fields, separator) ==
  IF Len(fields) = 1 THEN fields[1]
  ELSE fields[1] \o <<separator>> \o join(Tail(fields), separator)

Lines == {join(f, Separator) : f \in UNION {[1..n -> LineFields] : n \in 1..MaxFields}}

WriteLineToDictionary ==
  /\ ~aborted
  /\ ingested < MaxIngest
  /\ \E line \in Lines :
       \E r \in {write_line_to_dictionary(Self, line, Separator)} :
         /\ SetSelf(r.self)
         /\ aborted' = r.panic
         /\ ret' = [op |-> "write_line_to_dictionary", line |-> line, panic |-> r.panic]
  /\ ingested' = ingested + 1
  /\ UNCHANGED <<config, wrapper, clusters, comparator, twin>>

WriteLineToBigramDictionary ==
  /\ ~aborted
  /\ ingested < MaxIngest
  /\ \E line \in Lines :
       \E r \in {write_line_to_bigram_dictionary(Self, line, Separator)} :
         /\ SetSelf(r.self)
         /\ aborted' = r.panic
         /\ ret' = [op |-> "write_line_to_bigram_dictionary", line |-> line,
                    panic |-> r.panic]
  /\ ingested' = ingested + 1
  /\ UNCHANGED <<config, wrapper, clusters, comparator, twin>>

InitLines == InitWith({1}, {2}, {1, 2}, {"injective"})

NextLines == WriteLineToDictionary \/ WriteLineToBigramDictionary

SpecLines == InitLines /\ [][NextLines]_vars


\* The strings compared: the strings of the queries and the two pairs of
\* the remarks of DamaerauOSA, "ca"/"abc" and "sated"/"dates".
DistStrings ==
  UNION {[1..n -> Ascii] : n \in 0..MaxInputLen}
    \cup {<<"c", "a">>, <<"a", "b", "c">>,
          <<"s", "a", "t", "e", "d">>, <<"d", "a", "t", "e", "s">>}

\* the engine is left alone by the comparator
EngineUnchanged ==
  UNCHANGED <<config, wrapper, clusters, max_dictionary_word_length, deletes, words,
              below_threshold_words, bigrams, bigram_count_min, aborted, twin>>

\* EditDistance::compare with None on the one comparator instance; ingested
\* counts the calls made
Distance ==
  /\ ingested < MaxIngest
  /\ \E a \in DistStrings, b \in DistStrings :
       \E r \in {distance(a, b, comparator)} :
         /\ comparator' = [c1 |-> r.c1, p1 |-> r.p1]
         /\ ret' = [op |-> "distance", a |-> a, b |-> b, res |-> r.res]
  /\ ingested' = ingested + 1
  /\ EngineUnchanged

\* EditDistance::compare with Some(max_distance)
Distance2 ==
  /\ ingested < MaxIngest
  /\ \E a \in DistStrings, b \in DistStrings, max_distance \in 0..MaxDistance :
       \E r \in {distance2(a, b, max_distance, comparator)} :
         /\ comparator' = [c1 |-> r.c1, p1 |-> r.p1]
         /\ ret' = [op |-> "distance2", a |-> a, b |-> b,
                    max_distance |-> max_distance, res |-> r.res,
                    band |-> IF "band" \in DOMAIN r THEN r.band ELSE NoBand]
  /\ ingested' = ingested + 1
  /\ EngineUnchanged

InitDistance == InitWith({1}, {2}, {1}, {"injective"})

NextDistance == Distance \/ Distance2

SpecDistance == InitDistance /\ [][NextDistance]_vars


\* the phrases looked up: words of Ascii separated by spaces, and one word
\* with a grapheme of two bytes
Phrases == UNION {[1..n -> Ascii \cup {Space}] : n \in 0..MaxPhraseLen} \cup {<<Wide>>}

LookupCompound ==
  /\ ~aborted
  /\ ret.op # "lookup_compound"
  /\ \E input \in Phrases, max_edit_distance \in 0..dictionary_edit_distance,
        overflow_checks \in BOOLEAN :
       \E r \in {lookup_compound(Self, input, max_edit_distance, overflow_checks)} :
         /\ ret' = [op |-> "lookup_compound", input |-> input,
                    max_edit_distance |-> max_edit_distance,
                    overflow_checks |-> overflow_checks,
                    panic |-> r.panic, out |-> r.out, parts |-> r.parts]
         /\ aborted' = r.panic
  /\ UNCHANGED <<config, wrapper, clusters, max_dictionary_word_length, deletes, words,
                 below_threshold_words, bigrams, bigram_count_min, ingested,
                 comparator, twin>>

\* the dictionary of the compound lookups: a few words, and the bigram
\* lines made of two of them
CompoundKeys == {<<"a">>, <<"a", "a">>, <<"b", "b">>}
CompoundCounts == {1, 2}
CompoundLines == {join(<<k1, k2, <<"1">>>>, Separator) : k1, k2 \in CompoundKeys}

CompoundCreateDictionaryEntry ==
  /\ ~aborted
  /\ ret.op # "lookup_compound"
  /\ ingested < MaxCompoundIngest
  /\ \E key \in CompoundKeys, count \in CompoundCounts :
       \E r \in {create_dictionary_entry(Self, key, count)} :
         /\ SetSelf(r.self)
         /\ aborted' = r.panic
         /\ ret' = [op |-> "create_dictionary_entry", key |-> key,
                    result |-> r.result, panic |-> r.panic]
  /\ ingested' = ingested + 1
  /\ UNCHANGED <<config, wrapper, clusters, comparator, twin>>

CompoundWriteLineToBigramDictionary ==
  /\ ~aborted
  /\ ret.op # "lookup_compound"
  /\ ingested < MaxCompoundIngest
  /\ \E line \in CompoundLines :
       \E r \in {write_line_to_bigram_dictionary(Self, line, Separator)} :
         /\ SetSelf(r.self)
         /\ aborted' = r.panic
         /\ ret' = [op |-> "write_line_to_bigram_dictionary", line |-> line,
                    panic |-> r.panic]
  /\ ingested' = ingested + 1
  /\ UNCHANGED <<config, wrapper, clusters, comparator, twin>>

InitCompound == InitWith({2}, {2}, {1}, {"injective"})

NextCompound ==
  \/ CompoundCreateDictionaryEntry
  \/ CompoundWriteLineToBigramDictionary
  \/ LookupCompound

SpecCompound == InitCompound /\ [][NextCompound]_vars


SegmentationLens == {NoLen, 0, 1, 2}

WordSegmentation ==
  /\ ~aborted
  /\ ret.op # "word_segmentation"
  /\ \E input \in Phrases, max_edit_distance \in 0..dictionary_edit_distance,
        max_segmentation_word_len_opt \in SegmentationLens,
        overflow_checks \in BOOLEAN :
       \E r \in {word_segmentation(Self, input, max_edit_distance,
                                   max_segmentation_word_len_opt, overflow_checks)} :
         /\ ret' = [op |-> "word_segmentation", input |-> input,
                    max_edit_distance |-> max_edit_distance,
                    max_segmentation_word_len_opt |-> max_segmentation_word_len_opt,
                    overflow_checks |-> overflow_checks,
                    panic |-> r.panic, ub |-> r.ub, oob |-> r.oob, out |-> r.out]
         /\ aborted' = r.panic
  /\ UNCHANGED <<config, wrapper, clusters, max_dictionary_word_length, deletes, words,
                 below_threshold_words, bigrams, bigram_count_min, ingested,
                 comparator, twin>>

NextSegmentation == CompoundCreateDictionaryEntry \/ WordSegmentation

SpecSegmentation == InitCompound /\ [][NextSegmentation]_vars


\* the suggestions encoded
EncodeCounts == {0, 2, 258, UsizeMax}

Encode ==
  /\ \E term \in Inputs, dist \in 0..MaxDistance, count \in EncodeCounts :
       ret' = [op |-> "encode", self |-> SuggestItem(term, dist, count),
               encoded |-> encode(SuggestItem(term, dist, count))]
  /\ UNCHANGED <<config, wrapper, clusters, max_dictionary_word_length, deletes, words,
                 below_threshold_words, bigrams, bigram_count_min, ingested,
                 aborted, comparator, twin>>

NextEncode == Encode

SpecEncode == InitDistance /\ [][NextEncode]_vars


\* A second engine built by the same calls with the hash that collides:
\* twin holds its delete index, everything else the two engines share.
Twin == [Self EXCEPT !.deletes = twin, !.hash_kind = "colliding"]

HashCounts == {1, 2}

HashCreateDictionaryEntry ==
  /\ ~aborted
  /\ ret.op # "lookup"
  /\ ingested < MaxIngest
  /\ \E key \in Keys(prefix_length), count \in HashCounts :
       \E r \in {create_dictionary_entry(Self, key, count)},
          t \in {create_dictionary_entry(Twin, key, count)} :
         /\ SetSelf(r.self)
         /\ twin' = t.self.deletes
         /\ aborted' = (r.panic \/ t.panic)
         /\ ret' = [op |-> "create_dictionary_entry", key |-> key,
                    result |-> r.result, panic |-> r.panic \/ t.panic]
  /\ ingested' = ingested + 1
  /\ UNCHANGED <<config, wrapper, clusters, comparator>>

HashLookup ==
  /\ ~aborted
  /\ ret.op # "lookup"
  /\ \E input \in Inputs, verbosity \in Verbosities,
        max_edit_distance \in 0..dictionary_edit_distance,
        include_unknown \in BOOLEAN :
       \E r \in {lookup(Self, input, verbosity, max_edit_distance, include_unknown)},
          t \in {lookup(Twin, input, verbosity, max_edit_distance, include_unknown)} :
         /\ ret' = [op |-> "lookup", input |-> input, verbosity |-> verbosity,
                    max_edit_distance |-> max_edit_distance,
                    include_unknown |-> include_unknown,
                    panic |-> r.panic, underflow |-> r.underflow, out |-> r.out,
                    twin_panic |-> t.panic, twin_underflow |-> t.underflow,
                    twin_out |-> t.out]
         /\ aborted' = r.panic
  /\ UNCHANGED <<config, wrapper, clusters, max_dictionary_word_length, deletes, words,
                 below_threshold_words, bigrams, bigram_count_min, ingested,
                 comparator, twin>>

InitHash == Init

NextHash == HashCreateDictionaryEntry \/ HashLookup

SpecHash == InitHash /\ [][NextHash]_vars


\* ------------------------------------------------------ spellchecker_wasm

\* b'\n'
Newline == "\n"

\* what a call of write_to_dictionary is handed: up to MaxChunkLen bytes of
\* a dictionary file, cut anywhere
WasmBytes == {"a", "1", Space, Newline}
Chunks == UNION {[1..n -> WasmBytes] : n \in 0..MaxChunkLen}

\* the loop state after the line chunk went to the engine, r what the
\* engine answered
write_chunk(st, chunk, i, r) ==
  [self |-> r.self, cursor |-> i + 1, panic |-> r.panic, slice |-> FALSE,
   lines |-> Append(st.lines, chunk)]

RECURSIVE write_loop(_, _, _, _)
\* for i in 0..len of write_to_dictionary; st holds the engine, cursor, the
\* lines handed to the engine and whether the call aborted (slice: at the
\* slice &buffer[cursor..i - 1])
write_loop(buffer, is_bigram, i, st) ==
  IF st.panic \/ i >= Len(buffer) THEN st
  ELSE IF buffer[i + 1] # Newline THEN write_loop(buffer, is_bigram, i + 1, st)
  ELSE IF i > 1
  THEN IF st.cursor > i - 1
       THEN [st EXCEPT !.panic = TRUE, !.slice = TRUE]
       ELSE write_loop(buffer, is_bigram, i + 1,
              write_chunk(st, SubSeq(buffer, st.cursor + 1, i - 1), i,
                IF is_bigram
                THEN write_line_to_bigram_dictionary(st.self, SubSeq(buffer, st.cursor + 1, i - 1), Space)
                ELSE write_line_to_dictionary(st.self, SubSeq(buffer, st.cursor + 1, i - 1), Space)))
  ELSE write_loop(buffer, is_bigram, i + 1, [st EXCEPT !.cursor = i + 1])

\* buffer.drain(0..cursor), which an aborted call does not reach
drain(buffer, st) ==
  [self |-> st.self, panic |-> st.panic, slice |-> st.slice, lines |-> st.lines,
   buffer |-> IF st.panic THEN buffer ELSE SubSeq(buffer, st.cursor + 1, Len(buffer))]

\* write_to_dictionary on the buffer already extended with the bytes handed
\* in.  Returns [self, buffer, lines, panic, slice].
write_to_dictionary(self, buffer, is_bigram) ==
  drain(buffer, write_loop(buffer, is_bigram, 0,
          [self |-> self, cursor |-> 0, panic |-> FALSE, slice |-> FALSE, lines |-> <<>>]))

WriteToDictionary ==
  /\ ~aborted
  /\ ingested < MaxWrites
  /\ \E data \in Chunks, is_bigram \in BOOLEAN :
       \E r \in {write_to_dictionary(Self, BUFFER \o data, is_bigram)} :
         /\ SetSelf(r.self)
         /\ BUFFER' = r.buffer
         /\ stream' = stream \o data
         /\ passed' = passed \o r.lines
         /\ aborted' = r.panic
         /\ ret' = [op |-> "write_to_dictionary", data |-> data, is_bigram |-> is_bigram,
                    panic |-> r.panic, slice |-> r.slice]
  /\ ingested' = ingested + 1
  /\ UNCHANGED <<config, clusters, comparator, twin>>

\* symspell(max_dictionary_edit_distance, count_threshold): the prefix
\* length is 7
InitWasm == InitWith({1}, {7}, {1}, {"injective"})

NextWasm == WriteToDictionary

SpecWasm == InitWasm /\ [][NextWasm]_vars


\* ------------------------------------------------------- GraphemeClusters

\* a grapheme_len that takes every byte for a grapheme of its own
grapheme_len_ascii(byte) == 1

\* GraphemeClusters::grapheme_len of the leading byte: one more byte for
\* each of the bits 6, 5 and 4 set after bit 7
grapheme_len_byte(byte) ==
  IF byte \div 128 = 1 /\ (byte \div 64) % 2 = 1
  THEN IF (byte \div 32) % 2 = 1
       THEN IF (byte \div 16) % 2 = 1 THEN 4 ELSE 3
       ELSE 2
  ELSE 1

RECURSIVE slice_loop(_, _, _)
\* the while loop of get_slice_range; st holds byte_indices, largest_idx,
\* start_idx, end_idx and panic (self.bytes[end_idx] beyond the bytes)
slice_loop(self_bytes, range, st) ==
  IF st.panic \/ st.largest_idx >= range.end THEN st
  ELSE IF st.end_idx >= Len(self_bytes) THEN [st EXCEPT !.panic = TRUE]
  ELSE slice_loop(self_bytes, range,
         [byte_indices |-> Append(st.byte_indices,
                                  st.end_idx + grapheme_len_byte(self_bytes[st.end_idx + 1])),
          largest_idx |-> st.largest_idx + 1,
          start_idx |-> IF st.largest_idx + 1 = range.start
                        THEN st.end_idx + grapheme_len_byte(self_bytes[st.end_idx + 1])
                        ELSE st.start_idx,
          end_idx |-> st.end_idx + grapheme_len_byte(self_bytes[st.end_idx + 1]),
          panic |-> FALSE])

\* GraphemeClusters::get_slice_range(range) on the bytes and the cache of
\* the object.  Returns [byte_indices, largest_idx, start_idx, end_idx, panic].
get_slice_range(self_bytes, indices, range) ==
  slice_loop(self_bytes, range,
    [byte_indices |-> indices,
     largest_idx |-> Len(indices) - 1,
     start_idx |-> IF Len(indices) - 1 >= range.start THEN indices[range.start + 1]
                   ELSE indices[Len(indices)],
     end_idx |-> IF Len(indices) - 1 >= range.end THEN indices[range.end + 1]
                 ELSE indices[Len(indices)],
     panic |-> FALSE])

\* Index::index from the range get_slice_range answered: &self.bytes[range]
index_bytes(self_bytes, r) ==
  IF r.panic \/ r.end_idx > Len(self_bytes) THEN <<>>
  ELSE SubSeq(self_bytes, r.start_idx + 1, r.end_idx)

\* the strings clusters are made of
ClusterStrings == UNION {[1..n -> {"a", Wide, Euro, Rocket}] : n \in 0..MaxClusterLen}

\* GraphemeClusters::new(s)
NewClusters ==
  /\ ret.op = "new"
  /\ \E s \in ClusterStrings :
       /\ bytes' = as_bytes(s)
       /\ ret' = [op |-> "GraphemeClusters::new", s |-> s]
  /\ byte_indices' = <<0>>
  /\ ingested' = ingested + 1
  /\ UNCHANGED <<config, wrapper, max_dictionary_word_length, deletes, words,
                 below_threshold_words, bigrams, bigram_count_min, aborted,
                 comparator, twin>>

GetSliceRange ==
  /\ ~aborted
  /\ ret.op # "new"
  /\ ingested < MaxRequests
  /\ \E range_start \in 0..(MaxClusterLen + 1), range_end \in 0..(MaxClusterLen + 1) :
       /\ range_start <= range_end
       /\ \E r \in {get_slice_range(bytes, byte_indices,
                                     [start |-> range_start, end |-> range_end])} :
            /\ byte_indices' = r.byte_indices
            /\ aborted' = r.panic
            /\ ret' = [op |-> "get_slice_range", start |-> range_start, end |-> range_end,
                       cached |-> Len(byte_indices) - 1, panic |-> r.panic,
                       start_idx |-> r.start_idx, end_idx |-> r.end_idx]
  /\ ingested' = ingested + 1
  /\ UNCHANGED <<config, wrapper, bytes, max_dictionary_word_length, deletes, words,
                 below_threshold_words, bigrams, bigram_count_min, comparator, twin>>

IndexClusters ==
  /\ ~aborted
  /\ ret.op # "new"
  /\ ingested < MaxRequests
  /\ \E index \in 0..(MaxClusterLen + 1) :
       \E r \in {get_slice_range(bytes, byte_indices, [start |-> index, end |-> index + 1])} :
         /\ byte_indices' = r.byte_indices
         /\ aborted' = r.panic
         /\ ret' = [op |-> "index", index |-> index, cached |-> Len(byte_indices) - 1,
                    panic |-> r.panic, out |-> index_bytes(bytes, r)]
  /\ ingested' = ingested + 1
  /\ UNCHANGED <<config, wrapper, bytes, max_dictionary_word_length, deletes, words,
                 below_threshold_words, bigrams, bigram_count_min, comparator, twin>>

InitClusters == InitWith({1}, {2}, {1}, {"injective"})

NextClusters == NewClusters \/ GetSliceRange \/ IndexClusters

SpecClusters == InitClusters /\ [][NextClusters]_vars


\* ------------------------------------------------------------ parse_words

\* the texts parsed: letters of one and of two bytes between separators of
\* one and of three bytes
Texts == UNION {[1..n -> {"a", Wide, Space, Dash}] : n \in 0..MaxTextLen}

\* SymSpell::parse_words(text).  ub: a slice ended within a grapheme, the
\* string pushed is not UTF-8.
ParseWords ==
  /\ ret.op = "new"
  /\ \E text \in Texts :
       \E w \in {parse_words(text)} :
         ret' = [op |-> "parse_words", text |-> text, words |-> w,
                 ub |-> \E i \in 1..Len(w) : \E n \in 1..Len(w[i]) : w[i][n] = Torn]
  /\ ingested' = ingested + 1
  /\ EngineUnchanged
  /\ UNCHANGED comparator

InitParse == InitWith({1}, {2}, {1}, {"injective"})

NextParse == ParseWords

SpecParse == InitParse /\ [][NextParse]_vars

\* ------------------------------------------------------------- properties
\* The optimal string alignment distance, from its textbook recurrence.
OSA(a, b) ==
  LET d[i \in 0..Len(a), j \in 0..Len(b)] ==
        IF i = 0 THEN j
        ELSE IF j = 0 THEN i
        ELSE LET del == d[i - 1, j] + 1
                 ins == d[i, j - 1] + 1
                 sub == d[i - 1, j - 1] + (IF a[i] = b[j] THEN 0 ELSE 1)
                 best == Min(del, Min(ins, sub))
             IN IF i > 1 /\ j > 1 /\ a[i] = b[j - 1] /\ a[i - 1] = b[j]
                THEN Min(best, d[i - 2, j - 2] + 1) ELSE best
  IN d[Len(a), Len(b)]

\* a lookup has returned normally
Returned == ret.op = "lookup" /\ ~ret.panic

\* the suggestions of the list returned
Out == {ret.out[i] : i \in 1..Len(ret.out)}

\* the synthetic item of include_unknown
Unknown == SuggestItem(ret.input, ret.max_edit_distance + 1, 0)

\* the suggestions returned other than the synthetic item
Suggested == IF ret.include_unknown THEN Out \ {Unknown} ELSE Out

\* a + b saturating at the largest usize
SatAdd(a, b) == IF a > UsizeMax - b THEN UsizeMax ELSE a + b

\* C1: a lookup of a word w of `words`, with any verbosity and any
\* max_edit_distance from 0 up to that of the engine, returns a list that
\* contains the suggestion (w, 0, words[w]).
C1_ExactMatchReturned ==
  (ret.op = "lookup" /\ ret.input \in DOMAIN words)
    => SuggestItem(ret.input, 0, words[ret.input]) \in Out

\* C2: every suggestion (t, d, c) returned by lookup(q, _, k, _), other than
\* the synthetic unknown item, has d equal to the OSA distance between q and
\* t, and d <= k; when t is a single grapheme, d is len(q) - 1 if q
\* contains that grapheme and len(q) otherwise.
C2_DistanceIsOSA ==
  Returned => \A s \in Suggested :
                /\ s.distance = OSA(ret.input, s.term)
                /\ s.distance <= ret.max_edit_distance
                /\ Len(s.term) = 1 =>
                     s.distance = Len(ret.input)
                                    - (IF contains(ret.input, s.term[1]) THEN 1 ELSE 0)

\* C3: lookup(q, All, k, false) with 1 <= k contains every word w of `words`
\* other than q whose OSA distance to q is at most k.
C3_AllIsComplete ==
  (ret.op = "lookup" /\ ret.verbosity = "All" /\ ret.max_edit_distance >= 1
     /\ ~ret.include_unknown)
    => \A w \in DOMAIN words \ {ret.input} :
         OSA(ret.input, w) <= ret.max_edit_distance
           => \E s \in Out : s.term = w

\* C4: the list returned by lookup is sorted ascending by distance and, for
\* equal distance, descending by count.
C4_SortedByDistanceThenCount ==
  Returned => \A i, j \in 1..Len(ret.out) :
                i < j => \/ ret.out[i].distance < ret.out[j].distance
                         \/ /\ ret.out[i].distance = ret.out[j].distance
                            /\ ret.out[i].count >= ret.out[j].count

\* C5: every suggestion returned by lookup, other than the synthetic unknown
\* item, has a term that is a key of `words` and the count words[term].
C5_SuggestionsAreWords ==
  Returned => \A s \in Suggested :
                s.term \in DOMAIN words /\ s.count = words[s.term]

\* some word of `words` lies within max_edit_distance of the input
Near == \E w \in DOMAIN words : OSA(ret.input, w) <= ret.max_edit_distance

\* C6: with include_unknown, lookup returns exactly the synthetic suggestion
\* (q, k + 1, 0) when no word of `words` lies within distance k of q, and no
\* synthetic item otherwise; without include_unknown it returns the empty
\* list in the first case.
C6_UnknownIffNothingNear ==
  ret.op = "lookup" =>
    /\ (ret.include_unknown /\ ~Near) => (~ret.panic /\ ret.out = <<Unknown>>)
    /\ (ret.include_unknown /\ Near) => Unknown \notin Out
    /\ (~ret.include_unknown /\ ~Near) => (~ret.panic /\ ret.out = <<>>)

\* the strings left of s when the graphemes at the positions of skip go
Without(s, skip) ==
  LET keep == {i \in 1..Len(s) : i \notin skip}
      RECURSIVE pick(_, _)
      pick(i, acc) == IF i > Len(s) THEN acc
                      ELSE pick(i + 1, IF i \in keep THEN Append(acc, s[i]) ELSE acc)
  IN pick(1, <<>>)

\* the strings obtained from p by deleting between 0 and n graphemes
DeleteVariants(p, n) ==
  {Without(p, skip) : skip \in {x \in SUBSET (1..Len(p)) : Cardinality(x) <= n}}

\* the bucket of the delete string d
Bucket(d) ==
  LET h == get_string_hash(hash_kind, d) IN
  IF h \in DOMAIN deletes THEN {deletes[h][i] : i \in 1..Len(deletes[h])} ELSE {}

\* C7: for every word w of `words` and every string d obtained from the
\* first min(len(w), prefix_length) graphemes of w by deleting between 0 and
\* dictionary_edit_distance graphemes, the bucket deletes[hash(d)] contains w.
C7_DeletesCoverWords ==
  \A w \in DOMAIN words :
    \A d \in DeleteVariants(SubSeq(w, 1, Min(Len(w), prefix_length)),
                            dictionary_edit_distance) :
      w \in Bucket(d)

\* C8: no word is a key of both `words` and `below_threshold_words`, and a
\* word that is once in `words` stays in `words`.
C8_ExactlyOneMap ==
  [][/\ DOMAIN words' \cap DOMAIN below_threshold_words' = {}
     /\ DOMAIN words \subseteq DOMAIN words']_vars

\* the fields of the engine that ingestion writes
Engine(s) == <<s.words, s.below_threshold_words, s.deletes, s.max_dictionary_word_length>>

\* C9: from any engine state, ingesting w with count a and then with count b
\* leaves the engine as ingesting w once with min(a + b, MAX) does.
C9_TwiceIsOnceWithSum ==
  ~aborted =>
    \A w \in Keys(prefix_length), a \in Counts, b \in Counts :
      LET first == create_dictionary_entry(Self, w, a)
          second == create_dictionary_entry(first.self, w, b)
          once == create_dictionary_entry(Self, w, SatAdd(a, b))
      IN (~first.panic /\ ~second.panic /\ ~once.panic)
           => Engine(second.self) = Engine(once.self)

\* C10: create_dictionary_entry on a word that is already a key of `words`
\* returns false and changes only words[w], by a saturating increment;
\* deletes, below_threshold_words, max_dictionary_word_length and the bigram
\* data stay as they are.  A step that completes changes deletes only when
\* its word enters `words`.
C10_UpdateTouchesOnlyCount ==
  [][ret'.op = "create_dictionary_entry" =>
       /\ ret'.key \in DOMAIN words =>
            /\ ret'.result = FALSE /\ ~ret'.panic
            /\ deletes' = deletes
            /\ below_threshold_words' = below_threshold_words
            /\ max_dictionary_word_length' = max_dictionary_word_length
            /\ bigrams' = bigrams /\ bigram_count_min' = bigram_count_min
            /\ DOMAIN words' = DOMAIN words
            /\ \A w \in DOMAIN words \ {ret'.key} : words'[w] = words[w]
            /\ \E count \in Counts :
                 words'[ret'.key] = SatAdd(words[ret'.key], count)
       /\ (deletes' # deletes /\ ~ret'.panic) =>
            /\ ret'.key \notin DOMAIN words
            /\ ret'.key \in DOMAIN words'
            /\ ret'.result = TRUE]_vars

\* C10 witness: an ingestion of a word that was in `words` has returned
\* false, with the delete index of the word in place.
C10_Witness ==
  /\ ret.op = "create_dictionary_entry"
  /\ ret.key \in DOMAIN words
  /\ ret.result = FALSE
  /\ ~ret.panic
  /\ words[ret.key] = UsizeMax
  /\ ret.key \in Bucket(ret.key)

\* the number of separator-delimited fields of a line
FieldCount(line) == Cardinality({i \in 1..Len(line) : line[i] = Separator}) + 1

\* the engine state
EngineState ==
  <<max_dictionary_word_length, deletes, words, below_threshold_words, bigrams,
    bigram_count_min>>

\* C11: write_line_to_dictionary with fewer than 2 fields and
\* write_line_to_bigram_dictionary with fewer than 3 fields complete without
\* aborting and leave the whole engine state unchanged.
C11_MalformedLineIsNoOp ==
  [][(\/ ret'.op = "write_line_to_dictionary" /\ FieldCount(ret'.line) < 2
      \/ ret'.op = "write_line_to_bigram_dictionary" /\ FieldCount(ret'.line) < 3)
       => (~ret'.panic /\ EngineState' = EngineState)]_vars

\* C12: distance2(a, b, max) returns what distance(a, b) returns when that
\* is at most max and None otherwise, whatever comparisons the comparator
\* has made before.
C12_BoundedAgreesWithUnbounded ==
  [][ret'.op = "distance2" =>
       \E d \in {distance(ret'.a, ret'.b, comparator).res} :
         ret'.res = IF d <= ret'.max_distance THEN d ELSE None]_vars

\* C13: distance(a, b) is the optimal string alignment distance of a and b.
C13_DistanceIsOSA ==
  ret.op = "distance" => ret.res = OSA(ret.a, ret.b)

\* C14: distance(a, b) = distance(b, a), on the comparator before and after
\* the call.
C14_DistanceSymmetric ==
  [][ret'.op = "distance" =>
       /\ distance(ret'.b, ret'.a, comparator).res = ret'.res
       /\ distance(ret'.b, ret'.a, comparator').res = ret'.res]_vars

\* C12 witness: on a comparator that has compared before, the banded core
\* has answered with the distance and with None.
C12_Witness ==
  /\ ret.op = "distance2"
  /\ ingested > 1
  /\ Len(ret.a) = 3 /\ Len(ret.b) = 3 /\ ret.a[1] # ret.b[1] /\ ret.a[3] # ret.b[3]
  /\ ret.max_distance = 2
  /\ ret.res = None

\* C13 witness: "sated" and "dates" have been compared on a comparator
\* that has compared before, the distance is 2.
C13_Witness ==
  /\ ret.op = "distance"
  /\ ingested > 1
  /\ ret.a = <<"s", "a", "t", "e", "d">>
  /\ ret.b = <<"d", "a", "t", "e", "s">>
  /\ ret.res = 2

\* C14 witness: a longer string has been compared with a shorter one that
\* is not empty, on a comparator that has compared before.
C14_Witness ==
  /\ ret.op = "distance"
  /\ ingested > 1
  /\ Len(ret.a) > Len(ret.b)
  /\ ret.b # <<>>
  /\ ret.res = 3

\* C15: lookup_compound with max_edit_distance within the edit distance of
\* the engine runs to completion and returns exactly one suggestion.
C15_CompoundCompletes ==
  ret.op = "lookup_compound" => ~ret.panic /\ Len(ret.out) = 1

\* the terms of the chosen parts, in input order
PartTerms == [i \in 1..Len(ret.parts) |-> ret.parts[i].term]

\* C16: the term returned by lookup_compound is the chosen parts joined
\* with single spaces, without a leading or a trailing space.
C16_TermJoinedBySingleSpaces ==
  ret.op = "lookup_compound" /\ ~ret.panic =>
    ret.out[1].term = IF ret.parts = <<>> THEN <<>> ELSE join(PartTerms, Space)

\* a text made of words of the dictionary separated by single spaces
WordsText(text) ==
  /\ text # <<>>
  /\ \A i \in 1..Len(split(text, Space, <<>>)) : split(text, Space, <<>>)[i] \in DOMAIN words

\* C17: word_segmentation(text, 0, None) of a text made of dictionary words
\* separated by single spaces completes with the edit distance sum 0.
C17_SegmentationOfWordsIsExact ==
  /\ ret.op = "word_segmentation"
  /\ ret.max_edit_distance = 0
  /\ ret.max_segmentation_word_len_opt = NoLen
  /\ WordsText(ret.input)
  => ~ret.panic /\ ret.out[1].distance_sum = 0

\* C18: an encoded suggestion is the count and the distance as 4 bytes
\* each, least significant byte first, one byte holding the byte length of
\* the term, and the bytes of the term from offset 9 on: 9 + len(term)
\* bytes.
C18_EncodedLayout ==
  ret.op = "encode" =>
    /\ Len(ret.encoded) = 9 + byte_len(ret.self.term)
    /\ SubSeq(ret.encoded, 1, 4) = transmute(ret.self.count)
    /\ SubSeq(ret.encoded, 5, 8) = transmute(ret.self.distance)
    /\ ret.encoded[9] = byte_len(ret.self.term)
    /\ SubSeq(ret.encoded, 10, Len(ret.encoded)) = as_bytes(ret.self.term)

\* C19: two engines built by the same calls that differ in the string hash
\* only, one of them with a hash that collides, return the same list for
\* every lookup.
C19_HashIndependent ==
  ret.op = "lookup" /\ "twin_out" \in DOMAIN ret =>
    /\ ret.twin_panic = ret.panic
    /\ ret.twin_underflow = ret.underflow
    /\ ret.twin_out = ret.out

\* C20: lookup with verbosity Top returns at most one suggestion, and with
\* verbosity Closest it returns suggestions of one distance.
C20_TopOneClosestOneDistance ==
  ret.op = "lookup" /\ ~ret.panic =>
    /\ ret.verbosity = "Top" => Len(ret.out) <= 1
    /\ ret.verbosity = "Closest" =>
         \A i, j \in 1..Len(ret.out) : ret.out[i].distance = ret.out[j].distance

C20_Witness ==
  /\ ret.op = "lookup"
  /\ ~ret.panic
  /\ ret.verbosity = "Closest"
  /\ Len(ret.out) = 2
  /\ ret.out[1].distance = 1
  /\ ret.out[1].term # ret.out[2].term

\* the smallest distance of a list of suggestions
MinDistance(s) == CHOOSE d \in {s[i].distance : i \in 1..Len(s)} : \A i \in 1..Len(s) : d <= s[i].distance

\* the largest count among the suggestions of a list at distance d
MaxCountAt(s, d) == CHOOSE c \in {s[i].count : i \in {n \in 1..Len(s) : s[n].distance = d}} : \A i \in 1..Len(s) : s[i].distance = d => c >= s[i].count

\* C21: for a query that is not a word and 1 <= k, Top returns the
\* suggestion of smallest distance and, at that distance, of largest count
\* of the All result, and nothing when the All result is empty.
C21_TopAgreesWithAll ==
  /\ ret.op = "lookup"
  /\ ~ret.panic
  /\ ret.verbosity = "Top"
  /\ ~ret.include_unknown
  /\ ret.max_edit_distance >= 1
  /\ ret.input \notin DOMAIN words
  => \E all \in {lookup(Self, ret.input, "All", ret.max_edit_distance, FALSE)} :
       /\ ~all.panic
       /\ all.out = <<>> => ret.out = <<>>
       /\ all.out # <<>> =>
            /\ Len(ret.out) = 1
            /\ ret.out[1].distance = MinDistance(all.out)
            /\ ret.out[1].count = MaxCountAt(all.out, MinDistance(all.out))

C21_Witness ==
  /\ ret.op = "lookup"
  /\ ~ret.panic
  /\ ret.verbosity = "Top"
  /\ ~ret.include_unknown
  /\ ret.max_edit_distance >= 1
  /\ ret.input \notin DOMAIN words
  /\ Len(ret.out) = 1
  /\ \E all \in {lookup(Self, ret.input, "All", ret.max_edit_distance, FALSE).out} :
       /\ \E i, j \in 1..Len(all) :
            /\ all[i].distance = ret.out[1].distance
            /\ all[j].distance = ret.out[1].distance
            /\ all[i].count < all[j].count

\* C22: a query shorter than max_edit_distance does not take the early
\* exit for long queries: the subtraction neither wraps around nor aborts,
\* and lookup returns the words within max_edit_distance of the query.
C22_ShortQueryIsLookedUp ==
  /\ ret.op = "lookup"
  /\ ret.verbosity = "All"
  /\ ~ret.include_unknown
  /\ gc_len(ret.input) < ret.max_edit_distance
  => /\ ~ret.panic
     /\ \A w \in DOMAIN words :
          OSA(ret.input, w) <= ret.max_edit_distance =>
            \E i \in 1..Len(ret.out) : ret.out[i].term = w

\* C23: the list returned by lookup holds no two suggestions of one term.
C23_NoTermTwice ==
  ret.op = "lookup" =>
    \A i, j \in 1..Len(ret.out) : ret.out[i].term = ret.out[j].term => i = j

\* the band of the last comparison, when the banded core made it
Banded == ret.op = "distance2" /\ ret.band # NoBand

\* the banded core stopped where the claim says: every tested cell but the
\* last is within max_distance, no row follows a cell above it, and a cell
\* above it gives None
StopsAtExceeded ==
  \E bd \in {ret.band} :
    /\ Len(bd.cells) = Len(bd.rows)
    /\ \A r \in 1..Len(bd.rows) : bd.rows[r].i = r - 1
    /\ \A r \in 1..(Len(bd.cells) - 1) : bd.cells[r] <= bd.max_distance
    /\ Len(bd.rows) < bd.len1 => bd.cells[Len(bd.cells)] > bd.max_distance
    /\ bd.cells[Len(bd.cells)] > bd.max_distance => ret.res = None

\* C24: on trimmed windows of lengths m <= n with max < n, row i of the
\* bounded computation covers the columns from
\* max(0, min(i + 1, i - (max - (n - m)))), which is max(0, i - (max - (n - m)))
\* when n - m <= max, up to but excluding min(n, i + max + 1), and the
\* computation answers None as soon as the cell at column i + (n - m) of a
\* finished row is above max.
C24_BandColumns ==
  Banded =>
    /\ ret.band.len1 <= ret.band.len2 /\ ret.band.max_distance < ret.band.len2
    /\ \A r \in 1..Len(ret.band.rows) :
         /\ ret.band.rows[r].j_start
              = Max(0, Min(r, (r - 1) - (ret.band.max_distance - (ret.band.len2 - ret.band.len1))))
         /\ ret.band.rows[r].j_end = Min(ret.band.len2, (r - 1) + ret.band.max_distance + 1)
    /\ StopsAtExceeded

\* C24 as stated: the columns of row i end before min(n, i + max).
C24_BandColumnsAsStated ==
  Banded =>
    /\ \A r \in 1..Len(ret.band.rows) :
         /\ ret.band.rows[r].j_start
              = Max(0, (r - 1) - (ret.band.max_distance - (ret.band.len2 - ret.band.len1)))
         /\ ret.band.rows[r].j_end = Min(ret.band.len2, (r - 1) + ret.band.max_distance)
    /\ StopsAtExceeded

\* C24 witness: a banded comparison that finished every row, with a band
\* that left columns out on both sides.
C24_Witness ==
  /\ Banded
  /\ ret.band.len2 - ret.band.len1 <= ret.band.max_distance
  /\ \E r \in 1..Len(ret.band.rows) : ret.band.rows[r].j_start > 0
  /\ \E r \in 1..Len(ret.band.rows) : ret.band.rows[r].j_end < ret.band.len2
  /\ Len(ret.band.rows) = ret.band.len1

\* C25: every access word_segmentation makes to its buffer of compositions,
\* at destination_index = (i + circular_index) mod capacity or at
\* circular_index, addresses a slot the buffer has, and the slot returned
\* at the end is one of them.
C25_BufferAccessesInBounds ==
  ret.op = "word_segmentation" => ~ret.oob

\* the chosen parts that are neither a word of the dictionary nor a pair of
\* words: the tokens lookup_compound found no suggestion and no split for
UnknownParts ==
  {i \in 1..Len(ret.parts) :
     /\ ret.parts[i].term \notin DOMAIN words
     /\ \A n \in 1..Len(ret.parts[i].term) : ret.parts[i].term[n] # Space}

\* C26: a token lookup_compound finds no suggestion and no split for is a
\* part with the term unchanged, the distance max_edit_distance + 1 and the
\* count floor(10 / 10^len(token)).
C26_UnknownTokenEstimate ==
  ret.op = "lookup_compound" /\ ~ret.panic =>
    \A i \in UnknownParts :
      /\ ret.parts[i].distance = ret.max_edit_distance + 1
      /\ ret.parts[i].count = unknown_estimate(gc_len(ret.parts[i].term))

\* the lines of a stream that end in a newline, and the bytes after the last
\* newline
CompleteLines(s) == SubSeq(split(s, Newline, <<>>), 1, Len(split(s, Newline, <<>>)) - 1)
Trailing(s) == split(s, Newline, <<>>)[Len(split(s, Newline, <<>>))]

\* the lines that are not empty
NonEmpty(lines) == SelectSeq(lines, LAMBDA l : l # <<>>)

\* C27: however the stream is cut into calls of write_to_dictionary, the
\* lines handed to the engine are the newline-terminated lines of the
\* stream, once each, in order and byte for byte (empty lines left aside);
\* the bytes after the last newline stay in the buffer; a line does not
\* abort the call at its slice, empty or not.
C27_EveryLineOnceInOrder ==
  ret.op = "write_to_dictionary" =>
    /\ ~ret.slice
    /\ ~ret.panic => /\ NonEmpty(passed) = NonEmpty(CompleteLines(stream))
                     /\ BUFFER = Trailing(stream)

\* the 0-based positions at which a UTF-8 character of the bytes starts (a
\* byte that is no continuation byte 10xxxxxx), followed by the length
Starts(b) == {i \in 0..(Len(b) - 1) : b[i + 1] < 128 \/ b[i + 1] >= 192} \cup {Len(b)}

\* the byte offset of the grapheme with 0-based index k, Len(b) for k = len()
Offset(b, k) == CHOOSE o \in Starts(b) : Cardinality({i \in Starts(b) : i < o}) = k

\* len() of the clusters: the number of graphemes
ClustersLen == Cardinality(Starts(bytes)) - 1

\* C28: for 0 <= a <= b <= len(), get_slice_range(a..b) is the byte range
\* from the offset of grapheme a to the offset of grapheme b, whatever was
\* requested of the same object before, and gc[i] is the bytes of grapheme i.
C28_SliceRangeIsOffsets ==
  /\ ret.op = "get_slice_range" /\ ret.end <= ClustersLen
       => /\ ~ret.panic
          /\ ret.start_idx = Offset(bytes, ret.start)
          /\ ret.end_idx = Offset(bytes, ret.end)
  /\ ret.op = "index" /\ ret.index < ClustersLen
       => /\ ~ret.panic
          /\ ret.out = SubSeq(bytes, Offset(bytes, ret.index) + 1, Offset(bytes, ret.index + 1))

\* C28 witness: a range that starts within the cached offsets and ends
\* beyond them, over graphemes of more than one byte.
C28_Witness ==
  /\ ret.op = "get_slice_range"
  /\ ret.end <= ClustersLen
  /\ 0 < ret.start /\ ret.start < ret.cached /\ ret.cached < ret.end
  /\ ret.start_idx > ret.start
  /\ ret.end_idx - ret.start_idx > ret.end - ret.start

\* C29: indexing at or beyond len(), and get_slice_range with an end beyond
\* len(), run to completion and answer with nothing.
C29_BeyondLenIsEmpty ==
  /\ ret.op = "get_slice_range" /\ ret.end > ClustersLen => ~ret.panic
  /\ ret.op = "index" /\ ret.index >= ClustersLen => ~ret.panic /\ ret.out = <<>>

RECURSIVE Runs(_, _)
\* the maximal runs of word graphemes of a text, in order; cur is the run
\* being read
Runs(text, cur) ==
  IF text = <<>> THEN IF cur = <<>> THEN <<>> ELSE <<cur>>
  ELSE IF Head(text) \in {Space, Dash}
  THEN (IF cur = <<>> THEN <<>> ELSE <<cur>>) \o Runs(Tail(text), <<>>)
  ELSE Runs(Tail(text), Append(cur, Head(text)))

\* C30: parse_words(text) is the maximal runs of word graphemes of text, in
\* order: no token is empty, none holds a separator grapheme or a part of
\* one, whatever the byte length of the separator, and a run at the end of
\* the text is a token.
C30_TokensAreMaximalRuns ==
  ret.op = "parse_words" => ~ret.ub /\ ret.words = Runs(ret.text, <<>>)

====
